---------------------------- MODULE Spec2Model ----------------------------
(***************************************************************************)
(* A model of the invoice ingestion engine of auditops-streamlit           *)
(* (auditops-streamlit/invoice_engine.py, class InvoiceIngester).          *)
(*                                                                         *)
(* Text is modelled as a sequence of one-character strings, so that the    *)
(* regular expressions, upper(), strip() and the substring tests of the    *)
(* code are computed character by character.  Every lane of the engine     *)
(* has a specification of its own:                                         *)
(*   SpecCsv    process_fintech_csv   (structured lane)                   *)
(*   SpecSize   _normalize_size                                           *)
(*   SpecMatch  _match_product                                            *)
(*   SpecPdf    process_pdf_invoice   (unstructured lane)                 *)
(*   SpecDate     _clean_date                                             *)
(*   SpecCalls    concurrent calls on one InvoiceIngester                 *)
(*   SpecDb       get_approvals_by_shift (src/db.py)                      *)
(*   SpecColumns  _find_column_index                                      *)
(*   SpecPage     the Invoice Uploader page (pages/20_Invoice_Uploader.py)*)
(***************************************************************************)
EXTENDS Integers, Sequences, FiniteSets, TLC

VARIABLES
    pc,            \* position of the call: "call" before it, "done" after it
    file,          \* process_fintech_csv: the uploaded file
    csv_out,       \* process_fintech_csv: what the call gave its caller
    size_str,      \* _normalize_size: its argument
    size_out,      \* _normalize_size: its return value
    item,          \* _match_product: the extracted item
    master_df,     \* _match_product: the catalog table
    match_out,     \* _match_product: its return value
    candidates,    \* _match_product: its local filtered_master (row positions)
    pdf,           \* process_pdf_invoice: the uploaded document
    vendor_master, \* process_pdf_invoice: what is at vendor_master_file_path
    pdf_out,       \* process_pdf_invoice: what the call gave its caller
    ref_reads,     \* process_pdf_invoice: number of reads of the reference
    log,           \* records written to the module's logger
    date_in,       \* _clean_date: its argument
    date_out,      \* _clean_date: its return value
    date_again,    \* _clean_date: its return value on date_out
    calls,         \* concurrent calls: the function called and its file
    call_pc,       \* concurrent calls: the position of each call
    frames,        \* concurrent calls: the local variables of each call
    results,       \* concurrent calls: what each call gave its caller
    shift_id,      \* get_approvals_by_shift: its argument
    secrets,       \* get_client: the Supabase settings (secrets or environment)
    service_client, \* get_client: the global _supabase_service_client
    database,      \* get_approvals_by_shift: the database behind the client
    approvals_out, \* get_approvals_by_shift: what the call gave its caller
    header,        \* _find_column_index: the header row of a table
    terms,         \* _find_column_index: the search terms, in their order
    column_out,    \* _find_column_index: the index returned
    selected_vendor, \* Invoice Uploader: the vendor chosen in the selectbox
    uploaded_file, \* Invoice Uploader: the file in the file uploader
    invoice_result_df, \* Invoice Uploader: st.session_state.invoice_result_df
    displayed,     \* Invoice Uploader: the table and download the last run showed
    last_attempt   \* Invoice Uploader: the most recent click on Process Invoice

vars == <<pc, file, csv_out, size_str, size_out, item, master_df, match_out,
          candidates, pdf, vendor_master, pdf_out, ref_reads, log,
          date_in, date_out, date_again,
          calls, call_pc, frames, results,
          shift_id, secrets, service_client, database, approvals_out,
          header, terms, column_out,
          selected_vendor, uploaded_file, invoice_result_df, displayed, last_attempt>>

----------------------------------------------------------------------------
(* Values shared by the lanes *)

\* Python's None
None == <<"\\None">>

\* A Python int (None, NaN and text are sequences of other lengths or heads)
PyInt(n) == <<"\\int", n>>

IsPyInt(v) == Len(v) = 2 /\ v[1] = "\\int"

\* pandas' missing value (an empty CSV cell)
NaN == <<"\\NaN">>

\* A variable of another lane
Unused == <<"\\unused">>

\* The variables of the _clean_date calls
date_vars == <<date_in, date_out, date_again>>

DateIdle ==
    /\ date_in = Unused
    /\ date_out = Unused
    /\ date_again = Unused

\* The variables of the concurrent calls
call_vars == <<calls, call_pc, frames, results>>

CallsIdle ==
    /\ calls = Unused
    /\ call_pc = Unused
    /\ frames = Unused
    /\ results = Unused

\* The variables of get_approvals_by_shift
db_vars == <<shift_id, secrets, service_client, database, approvals_out>>

DbIdle ==
    /\ shift_id = Unused
    /\ secrets = Unused
    /\ service_client = Unused
    /\ database = Unused
    /\ approvals_out = Unused

\* The variables of the header probe
col_vars == <<header, terms, column_out>>

ColumnsIdle ==
    /\ header = Unused
    /\ terms = Unused
    /\ column_out = Unused

\* The variables of the Invoice Uploader page
page_vars == <<selected_vendor, uploaded_file, invoice_result_df, displayed, last_attempt>>

PageIdle ==
    /\ selected_vendor = Unused
    /\ uploaded_file = Unused
    /\ invoice_result_df = Unused
    /\ displayed = Unused
    /\ last_attempt = Unused

Range(s) == {s[i] : i \in 1..Len(s)}

Digits == {"0", "1", "2", "3", "4", "5", "6", "7", "8", "9"}

DigitVal(c) ==
    CASE c = "0" -> 0 [] c = "1" -> 1 [] c = "2" -> 2 [] c = "3" -> 3
      [] c = "4" -> 4 [] c = "5" -> 5 [] c = "6" -> 6 [] c = "7" -> 7
      [] c = "8" -> 8 [] c = "9" -> 9

DigitChar(n) == <<"0", "1", "2", "3", "4", "5", "6", "7", "8", "9">>[n + 1]

\* The value of a run of decimal digits
RECURSIVE DecVal(_)
DecVal(ds) ==
    IF ds = <<>> THEN 0
    ELSE 10 * DecVal(SubSeq(ds, 1, Len(ds) - 1)) + DigitVal(ds[Len(ds)])

\* The position of x in the sequence seq, 0 when it is not in it
IndexOf(seq, x) ==
    IF x \in Range(seq) THEN CHOOSE i \in 1..Len(seq) : seq[i] = x ELSE 0

Lowercase == <<"a", "b", "c", "d", "e", "f", "g", "h", "i", "j", "k", "l", "m", "n", "o", "p", "q", "r", "s", "t", "u", "v", "w", "x", "y", "z">>

Uppercase == <<"A", "B", "C", "D", "E", "F", "G", "H", "I", "J", "K", "L", "M", "N", "O", "P", "Q", "R", "S", "T", "U", "V", "W", "X", "Y", "Z">>

\* The least number of a set of numbers
MinOf(S) == CHOOSE x \in S : \A y \in S : x <= y

\* The greatest number of a set of numbers
MaxOf(S) == CHOOSE x \in S : \A y \in S : x >= y

Whitespace == {" ", "\t", "\n"}

\* str.strip()
RECURSIVE LStrip(_)
LStrip(s) ==
    IF s # <<>> /\ s[1] \in Whitespace THEN LStrip(Tail(s)) ELSE s

RECURSIVE RStrip(_)
RStrip(s) ==
    IF s # <<>> /\ s[Len(s)] \in Whitespace
    THEN RStrip(SubSeq(s, 1, Len(s) - 1)) ELSE s

Strip(s) == RStrip(LStrip(s))

\* An exception object: its class and the parts of its message
Exc(cls, msg) == [cls |-> cls, msg |-> msg]

\* What a call gives its caller: a returned value or a raised exception
Returned(v) == [raised |-> FALSE, value |-> v]

Raised(e) == [raised |-> TRUE, exc |-> e]

\* One record of the logger
LogRec(level, what) == <<level, what>>

----------------------------------------------------------------------------
(* _clean_date *)

\* pd.isna(date_value)
IsNa(v) == v = NaN

IsDigitAt(s, i) == i >= 1 /\ i <= Len(s) /\ s[i] \in Digits

AllDigits(s, i, j) == \A k \in i..j : IsDigitAt(s, k)

ValidYMD(y, m, d) ==
    /\ DecVal(m) \in 1..12
    /\ DecVal(d) \in 1..31
    /\ (DecVal(m) \in {4, 6, 9, 11} => DecVal(d) <= 30)
    /\ (DecVal(m) = 2 => DecVal(d) <= 29)
    /\ DecVal(y) \in 1678..2261

\* "HH:MM" or "HH:MM:SS"
IsTimeOfDay(t) ==
    /\ Len(t) \in {5, 8}
    /\ AllDigits(t, 1, 2) /\ t[3] = ":" /\ AllDigits(t, 4, 5)
    /\ DecVal(SubSeq(t, 1, 2)) <= 23 /\ DecVal(SubSeq(t, 4, 5)) <= 59
    /\ (Len(t) = 8 => t[6] = ":" /\ AllDigits(t, 7, 8)
                      /\ DecVal(SubSeq(t, 7, 8)) <= 59)

Pad2(ds) == IF Len(ds) = 1 THEN <<"0">> \o ds ELSE ds

\* The position of the first "/" of s, 0 when there is none
RECURSIVE FirstSlash(_, _)
FirstSlash(s, i) ==
    IF i > Len(s) THEN 0
    ELSE IF s[i] = "/" THEN i ELSE FirstSlash(s, i + 1)

\* "M/D/YYYY" with one or two digits of month and day (month first), alone
\* or followed by a blank and a time of day
SlashDate(t) ==
    LET a == FirstSlash(t, 1)
        b == IF a = 0 THEN 0 ELSE FirstSlash(t, a + 1)
    IN  IF /\ a \in 2..3 /\ b - a \in 2..3 /\ Len(t) >= b + 4
           /\ AllDigits(t, 1, a - 1) /\ AllDigits(t, a + 1, b - 1)
           /\ AllDigits(t, b + 1, b + 4)
           /\ (Len(t) > b + 4 => /\ t[b + 5] = " "
                                 /\ IsTimeOfDay(SubSeq(t, b + 6, Len(t))))
        THEN [ok |-> TRUE, y |-> SubSeq(t, b + 1, b + 4),
              m |-> Pad2(SubSeq(t, 1, a - 1)),
              d |-> Pad2(SubSeq(t, a + 1, b - 1))]
        ELSE [ok |-> FALSE]

\* "YYYY-MM-DD", alone or followed by a blank or "T" and a time of day
IsoDate(t) ==
    IF /\ Len(t) >= 10
       /\ AllDigits(t, 1, 4) /\ t[5] = "-" /\ AllDigits(t, 6, 7)
       /\ t[8] = "-" /\ AllDigits(t, 9, 10)
       /\ (Len(t) > 10 => /\ t[11] \in {" ", "T"}
                          /\ IsTimeOfDay(SubSeq(t, 12, Len(t))))
    THEN [ok |-> TRUE, y |-> SubSeq(t, 1, 4), m |-> SubSeq(t, 6, 7),
          d |-> SubSeq(t, 9, 10)]
    ELSE [ok |-> FALSE]

\* pd.to_datetime(date_str) on the date formats of the model: an ISO date
\* with an optional time of day, or a month-first slash date.  The result
\* is a Timestamp, NaT (for an empty string), or an exception.
to_datetime(date_str) ==
    LET t   == Strip(date_str)
        iso == IsoDate(t)
        sl  == SlashDate(t)
        p   == IF iso.ok THEN iso ELSE sl
    IN  IF t = <<>> THEN [kind |-> "NaT"]
        ELSE IF p.ok /\ ValidYMD(p.y, p.m, p.d)
        THEN [kind |-> "Timestamp", y |-> p.y, m |-> p.m, d |-> p.d]
        ELSE [kind |-> "error"]

\* A strftime('%d/%m/%Y') instead: the day first, with slashes
strftimeDayFirst(ts) == ts.d \o <<"/">> \o ts.m \o <<"/">> \o ts.y

\* parsed_date.strftime('%Y-%m-%d'); NaT.strftime raises
strftime(ts) == ts.y \o <<"-">> \o ts.m \o <<"-">> \o ts.d

IsYMDAt(s, i) ==
    /\ i + 9 <= Len(s)
    /\ AllDigits(s, i, i + 3) /\ s[i + 4] = "-"
    /\ AllDigits(s, i + 5, i + 6) /\ s[i + 7] = "-"
    /\ AllDigits(s, i + 8, i + 9)

\* re.findall(...)[-1] instead: start of the rightmost match
SearchYMDLast(s, i) ==
    IF \E k \in i..Len(s) : IsYMDAt(s, k)
    THEN MaxOf({k \in i..Len(s) : IsYMDAt(s, k)})
    ELSE 0

\* re.search(r'(\d{4}-\d{2}-\d{2})', date_str): start of the leftmost match
\* at or after position i, 0 when there is none
RECURSIVE SearchYMD(_, _)
SearchYMD(s, i) ==
    IF i + 9 > Len(s) THEN 0
    ELSE IF IsYMDAt(s, i) THEN i ELSE SearchYMD(s, i + 1)

_clean_date(date_value) ==
    IF IsNa(date_value) THEN <<>>
    ELSE LET date_str    == date_value
             parsed_date == to_datetime(date_str)
             date_match  == SearchYMD(date_str, 1)
         IN  IF parsed_date.kind = "Timestamp" THEN strftime(parsed_date)
             ELSE IF date_match # 0
                  THEN SubSeq(date_str, date_match, date_match + 9)
                  ELSE Strip(date_str)

----------------------------------------------------------------------------
(* process_fintech_csv: the structured lane *)

FINTECH_REQUIRED_COLUMNS ==
    <<"Vendor Name", "Process Date", "Invoice Number", "Product Number",
      "Quantity", "Unit Cost", "Product Description">>

\* Most data rows of an uploaded CSV file
MaxCsvRows == 2

\* Two orders in which a vendor export may lay out its columns; "Store" and
\* "vendor name" (the test on names is case-sensitive) are not required.
ColumnLayouts ==
    { <<"Vendor Name", "Process Date", "Invoice Number", "Product Number",
        "Quantity", "Unit Cost", "Product Description", "Store",
        "vendor name">>,
      <<"Store", "Product Description", "Quantity", "vendor name",
        "Invoice Number", "Unit Cost", "Vendor Name", "Product Number",
        "Process Date">> }

AllColumns == {"Vendor Name", "Process Date", "Invoice Number",
               "Product Number", "Quantity", "Unit Cost",
               "Product Description", "Store", "vendor name"}

\* The columns of layout that are in keep, in the layout's order
RECURSIVE Subsequence(_, _)
Subsequence(layout, keep) ==
    IF layout = <<>> THEN <<>>
    ELSE (IF Head(layout) \in keep THEN <<Head(layout)>> ELSE <<>>)
         \o Subsequence(Tail(layout), keep)

\* Raw values of the Process Date column
DateSamples ==
    { NaN,
      <<"2", "0", "2", "4", "-", "0", "1", "-", "1", "5">>,
      <<"2", "0", "2", "4", "-", "0", "1", "-", "1", "5", " ",
        "1", "0", ":", "3", "0">>,
      <<"1", "/", "5", "/", "2", "0", "2", "4">>,
      <<" ", "t", "b", "d", " ">>,
      <<"x", "2", "0", "2", "4", "-", "1", "3", "-", "4", "5", "x">> }

RowName(i) == <<"row 1", "row 2", "row 3", "row 4">>[i]

RECURSIVE SeqsUpTo(_, _)
SeqsUpTo(S, n) ==
    IF n = 0 THEN {<<>>}
    ELSE LET shorter == SeqsUpTo(S, n - 1)
         IN  shorter \cup {Append(q, x) : q \in {r \in shorter : Len(r) = n - 1},
                                          x \in S}

\* The uploaded files: no data at all, a structurally broken CSV, bytes that
\* are no text, or a table with a header and rows.  A table without a
\* Process Date column has no dates to choose.  The tables have at most
\* rows data rows.
CsvFiles(rows) ==
    { [kind |-> k, columns |-> <<>>, dates |-> <<>>] :
          k \in {"empty", "malformed", "undecodable"} }
    \cup
    { [kind |-> "table", columns |-> Subsequence(layout, keep), dates |-> ds] :
          layout \in ColumnLayouts, keep \in SUBSET AllColumns,
          ds \in SeqsUpTo(DateSamples, rows) }

WellFormedCsv(f) ==
    f.kind = "table" /\ "Process Date" \notin Range(f.columns)
        => \A i \in 1..Len(f.dates) : f.dates[i] = NaN

\* The cell of data row i under column col: every cell but a date holds a
\* value of its own
Cell(f, i, col) ==
    IF col = "Process Date" THEN f.dates[i] ELSE <<col, RowName(i)>>

\* A DataFrame: its column index and its rows
DataFrame(columns, rows) == [columns |-> columns, rows |-> rows]

\* pd.read_csv(file)
read_csv(f) ==
    CASE f.kind = "empty" ->
           Raised(Exc("EmptyDataError", <<"No columns to parse from file">>))
      [] f.kind = "malformed" ->
           Raised(Exc("ParserError",
                      <<"Error tokenizing data. C error: Expected 2 fields in line 3, saw 3">>))
      [] f.kind = "undecodable" ->
           Raised(Exc("UnicodeDecodeError",
                      <<"'utf-8' codec can't decode byte 0xff in position 0">>))
      [] f.kind = "table" ->
           Returned(DataFrame(f.columns,
                        [i \in 1..Len(f.dates) |->
                            [c \in Range(f.columns) |-> Cell(f, i, c)]]))

\* [col for col in self.FINTECH_REQUIRED_COLUMNS if col not in df.columns]
RECURSIVE MissingFrom(_, _)
MissingFrom(required, columns) ==
    IF required = <<>> THEN <<>>
    ELSE (IF Head(required) \notin Range(columns)
          THEN <<Head(required)>> ELSE <<>>)
         \o MissingFrom(Tail(required), columns)

\* A validation that stops at the first absent column
missing_cols_first(df) ==
    LET m == MissingFrom(FINTECH_REQUIRED_COLUMNS, df.columns)
    IN  IF m = <<>> THEN <<>> ELSE <<Head(m)>>

missing_cols(df) == MissingFrom(FINTECH_REQUIRED_COLUMNS, df.columns)

\* The message of the ValueError for absent columns; ', '.join keeps the
\* order of the names it joins
MissingColumnsMessage(missing, columns) ==
    <<"Missing required columns in CSV: ", missing,
      ". Available columns: ", columns>>

\* A copy that keeps every column of the input
df_unfiltered(df) == df

\* df[self.FINTECH_REQUIRED_COLUMNS].copy()
df_filtered(df) ==
    DataFrame(FINTECH_REQUIRED_COLUMNS,
              [i \in 1..Len(df.rows) |->
                  [c \in Range(FINTECH_REQUIRED_COLUMNS) |-> df.rows[i][c]]])

\* df_filtered['Process Date'].apply(self._clean_date)
apply_clean_date(df) ==
    IF "Process Date" \in Range(df.columns)
    THEN DataFrame(df.columns,
              [i \in 1..Len(df.rows) |->
                  [df.rows[i] EXCEPT !["Process Date"] = _clean_date(@)]])
    ELSE df

\* A handler that reports the empty file as a parse error
except_EmptyDataErrorAsParse(e) ==
    Raised(Exc("ValueError", <<"Error parsing CSV file: ">> \o e.msg))

\* except pd.errors.EmptyDataError
except_EmptyDataError(e) ==
    Raised(Exc("ValueError", <<"The uploaded CSV file is empty.">>))

\* except pd.errors.ParserError as e
except_ParserError(e) ==
    Raised(Exc("ValueError", <<"Error parsing CSV file: ">> \o e.msg))

\* process_fintech_csv(file): what the caller gets, and what is logged
process_fintech_csv(f) ==
    LET r == read_csv(f)
    IN  IF r.raised
        THEN CASE r.exc.cls = "EmptyDataError" ->
                    [out |-> except_EmptyDataError(r.exc), log |-> <<>>]
               [] r.exc.cls = "ParserError" ->
                    [out |-> except_ParserError(r.exc), log |-> <<>>]
               [] OTHER ->
                    [out |-> Raised(r.exc),
                     log |-> <<LogRec("error", "Error processing Fintech CSV")>>]
        ELSE LET df == r.value
             IN  IF missing_cols(df) # <<>>
                 THEN [out |-> Raised(Exc("ValueError",
                                  MissingColumnsMessage(missing_cols(df), df.columns))),
                       log |-> <<LogRec("error", "Error processing Fintech CSV")>>]
                 ELSE [out |-> Returned(apply_clean_date(df_filtered(df))),
                       log |-> <<LogRec("info", "Successfully processed Fintech CSV")>>]

InitCsv ==
    /\ pc = "call"
    /\ file \in {f \in CsvFiles(MaxCsvRows) : WellFormedCsv(f)}
    /\ csv_out = Unused
    /\ size_str = Unused /\ size_out = Unused
    /\ item = Unused /\ master_df = Unused /\ match_out = Unused
    /\ candidates = <<>>
    /\ pdf = Unused /\ vendor_master = Unused /\ pdf_out = Unused
    /\ ref_reads = 0
    /\ log = <<>>
    /\ DateIdle
    /\ CallsIdle
    /\ DbIdle
    /\ ColumnsIdle
    /\ PageIdle

ProcessFintechCsv ==
    /\ pc = "call"
    /\ csv_out' = process_fintech_csv(file).out
    /\ log' = log \o process_fintech_csv(file).log
    /\ pc' = "done"
    /\ UNCHANGED <<file, size_str, size_out, item, master_df, match_out,
                   candidates, pdf, vendor_master, pdf_out, ref_reads,
                   date_vars,
                   call_vars,
                   db_vars,
                   col_vars,
                   page_vars>>

NextCsv == ProcessFintechCsv

SpecCsv == InitCsv /\ [][NextCsv]_vars

----------------------------------------------------------------------------
(* _clean_date called on a value, and again on what it returned *)

DatePrefixes == {<<>>, <<" ">>, <<"x">>}

DateCores ==
    { <<"2", "0", "2", "4", "-", "0", "1", "-", "1", "5">>,
      <<"2", "0", "2", "4", "-", "1", "3", "-", "4", "5">>,
      <<"1", "/", "5", "/", "2", "0", "2", "4">>,
      <<"t", "b", "d">> }

DateSuffixes ==
    { <<>>, <<" ">>,
      <<" ", "1", "0", ":", "3", "0">>,
      <<"x">>,
      <<"x", "2", "0", "2", "3", "-", "1", "2", "-", "3", "1">> }

\* Raw date values: a missing value, the empty and the blank text, and
\* texts made of a date (valid or not, ISO or month first) or a word, with
\* something before and after it
DateValues ==
    DateSamples \cup {<<>>, <<" ">>}
    \cup {p \o c \o q : p \in DatePrefixes, c \in DateCores, q \in DateSuffixes}

InitDate ==
    /\ pc = "call"
    /\ date_in \in DateValues
    /\ date_out = Unused /\ date_again = Unused
    /\ file = Unused /\ csv_out = Unused
    /\ size_str = Unused /\ size_out = Unused
    /\ item = Unused /\ master_df = Unused /\ match_out = Unused
    /\ candidates = <<>>
    /\ pdf = Unused /\ vendor_master = Unused /\ pdf_out = Unused
    /\ ref_reads = 0
    /\ log = <<>>
    /\ CallsIdle
    /\ DbIdle
    /\ ColumnsIdle
    /\ PageIdle

\* _clean_date(date_in)
CleanDate ==
    /\ pc = "call"
    /\ date_out' = _clean_date(date_in)
    /\ pc' = "again"
    /\ UNCHANGED <<date_in, date_again, file, csv_out, size_str, size_out,
                   item, master_df, match_out, candidates, pdf,
                   vendor_master, pdf_out, ref_reads, log,
                   call_vars,
                   db_vars,
                   col_vars,
                   page_vars>>

\* _clean_date(date_out): the result is normalized once more
CleanDateAgain ==
    /\ pc = "again"
    /\ date_again' = _clean_date(date_out)
    /\ pc' = "done"
    /\ UNCHANGED <<date_in, date_out, file, csv_out, size_str, size_out,
                   item, master_df, match_out, candidates, pdf,
                   vendor_master, pdf_out, ref_reads, log,
                   call_vars,
                   db_vars,
                   col_vars,
                   page_vars>>

NextDate == CleanDate \/ CleanDateAgain

SpecDate == InitDate /\ [][NextDate]_vars

----------------------------------------------------------------------------
(* Python floats: IEEE 754 doubles.  A positive double is its 53-bit       *)
(* mantissa m (most significant bit first, m[1] = 1) and its exponent e:   *)
(* the value is m * 2^e.  Zero has the empty mantissa.                     *)

MantissaBits == 53

FloatZero == [m |-> <<>>, e |-> 0]

\* float('inf'): what float(text) gives for a numeral above the largest
\* double, about 1.8 * 10^308
FloatInf == [inf |-> TRUE]

\* A numeral with more digits than this before its point is above the
\* largest double
FloatMaxDigits == 309

\* What int(float('inf')) raises
OverflowError ==
    <<"\\raise", "OverflowError", "cannot convert float infinity to integer">>

\* 2^k for k in 0..30
Pow2(k) ==
    <<1, 2, 4, 8, 16, 32, 64, 128, 256, 512, 1024, 2048, 4096, 8192, 16384,
      32768, 65536, 131072, 262144, 524288, 1048576, 2097152, 4194304,
      8388608, 16777216, 33554432, 67108864, 134217728, 268435456,
      536870912, 1073741824>>[k + 1]

\* The number of binary digits of a natural number below 2^31
BitLen(n) ==
    IF n = 0 THEN 0
    ELSE CHOOSE k \in 1..31 : Pow2(k - 1) <= n /\ (k = 31 \/ n < Pow2(k))

\* The lowest width binary digits of n, most significant first
BitsFixed(n, width) == [i \in 1..width |-> (n \div Pow2(width - i)) % 2]

\* The binary digits of a natural number, most significant first
BitsOfNat(n) == BitsFixed(n, BitLen(n))

\* The natural number of at most 31 binary digits
RECURSIVE NatOfBits(_)
NatOfBits(bits) ==
    IF bits = <<>> THEN 0
    ELSE IF Len(bits) = 1 THEN bits[1]
    ELSE LET h == Len(bits) \div 2
         IN  NatOfBits(SubSeq(bits, 1, Len(bits) - h)) * Pow2(h)
               + NatOfBits(SubSeq(bits, Len(bits) - h + 1, Len(bits)))

RECURSIVE Pow10(_)
Pow10(d) == IF d = 0 THEN 1 ELSE 10 * Pow10(d - 1)

\* The fraction r / D is expanded eight binary digits at a time
ChunkBits == 8

FracChunks == 10

\* The next count base-256 digits of the fraction r / D, and what remains
RECURSIVE FracDigits(_, _, _)
FracDigits(r, D, count) ==
    IF count = 0 THEN [digits |-> <<>>, r |-> r]
    ELSE LET rest == FracDigits((r * Pow2(ChunkBits)) % D, D, count - 1)
         IN  [digits |-> <<(r * Pow2(ChunkBits)) \div D>> \o rest.digits,
              r |-> rest.r]

\* The binary digits of a sequence of base-256 digits
BitsOfDigits(ds) ==
    [i \in 1..(ChunkBits * Len(ds)) |->
        (ds[((i - 1) \div ChunkBits) + 1]
            \div Pow2(ChunkBits - 1 - ((i - 1) % ChunkBits))) % 2]

\* The position of the first 1 of bits (there is one)
FirstOne(bits) ==
    CHOOSE p \in 1..Len(bits) :
        bits[p] = 1 /\ \A q \in 1..(p - 1) : bits[q] = 0

\* A mantissa of MantissaBits digits rounded up by one unit in the last place
RoundUp(m, e) ==
    IF \A i \in 1..Len(m) : m[i] = 1
    THEN [m |-> [i \in 1..Len(m) |-> IF i = 1 THEN 1 ELSE 0], e |-> e + 1]
    ELSE LET p == CHOOSE q \in 1..Len(m) :
                      m[q] = 0 /\ \A j \in (q + 1)..Len(m) : m[j] = 1
         IN  [m |-> [i \in 1..Len(m) |->
                        IF i < p THEN m[i] ELSE IF i = p THEN 1 ELSE 0],
              e |-> e]

\* The digits bits (the first of them 1, at least MantissaBits + 1 of
\* them), of which the last has the weight 2^e, rounded to a double: to
\* the nearest mantissa, ties to the even one.  sticky tells that the exact
\* value has further nonzero digits after bits.
RoundToDouble(bits, e, sticky) ==
    LET kept == SubSeq(bits, 1, MantissaBits)
        lost == SubSeq(bits, MantissaBits + 1, Len(bits))
        up   == /\ lost[1] = 1
                /\ \/ \E i \in 2..Len(lost) : lost[i] = 1
                   \/ sticky
                   \/ kept[MantissaBits] = 1
        e2   == e + Len(lost)
    IN  IF up THEN RoundUp(kept, e2) ELSE [m |-> kept, e |-> e2]

\* float(text) for a decimal numeral: the double nearest to n / 10^d
FloatOfDecimal(n, d) ==
    LET D    == Pow10(d)
        ib   == BitsOfNat(n \div D)
        fd   == FracDigits(n % D, D, FracChunks)
        all  == ib \o BitsOfDigits(fd.digits)
        from == FirstOne(all)
    IN  IF n = 0 THEN FloatZero
        ELSE RoundToDouble(SubSeq(all, from, Len(all)),
                           0 - ChunkBits * FracChunks, fd.r # 0)

\* The product is computed on limbs of 14 binary digits
LimbBits == 14

\* x * k for a double x and a natural k <= 100000: the exact product of the
\* mantissa and k, rounded to a double
FloatTimes(x, k) ==
    IF x = FloatInf THEN FloatInf
    ELSE IF x.m = <<>> \/ k = 0 THEN FloatZero
    ELSE LET B    == Pow2(LimbBits)
             pad  == [i \in 1..(4 * LimbBits - Len(x.m)) |-> 0] \o x.m
             limb(j) == NatOfBits(SubSeq(pad, (j - 1) * LimbBits + 1, j * LimbBits))
             t4   == limb(4) * k
             t3   == limb(3) * k + (t4 \div B)
             t2   == limb(2) * k + (t3 \div B)
             t1   == limb(1) * k + (t2 \div B)
             all  == BitsOfNat(t1) \o BitsFixed(t2 % B, LimbBits)
                       \o BitsFixed(t3 % B, LimbBits) \o BitsFixed(t4 % B, LimbBits)
         IN  IF Len(all) <= MantissaBits
             THEN [m |-> all \o [i \in 1..(MantissaBits - Len(all)) |-> 0],
                   e |-> x.e - (MantissaBits - Len(all))]
             ELSE RoundToDouble(all, x.e, FALSE)

\* int(x) for a double x >= 0: the digits before the binary point
IntOfFloat(x) ==
    IF x.m = <<>> THEN 0
    ELSE IF Len(x.m) + x.e <= 0 THEN 0
    ELSE IF x.e >= 0 THEN NatOfBits(x.m) * Pow2(x.e)
    ELSE NatOfBits(SubSeq(x.m, 1, Len(x.m) + x.e))

\* x > k for a double x >= 0 and a natural k
FloatGreater(x, k) ==
    \/ x = FloatInf
    \/ x # FloatInf /\ IntOfFloat(x) > k
    \/ /\ x # FloatInf
       /\ IntOfFloat(x) = k
       /\ x.m # <<>> /\ x.e < 0
       /\ \E i \in 1..Len(x.m) : i > Len(x.m) + x.e /\ x.m[i] = 1

\* int(x) as a Python value: the integer, or the error for infinity
int_of_float(x) ==
    IF x = FloatInf THEN OverflowError ELSE PyInt(IntOfFloat(x))

----------------------------------------------------------------------------
(* _normalize_size *)

\* str.upper()
UpperOf == [c \in Range(Lowercase) |-> Uppercase[IndexOf(Lowercase, c)]]

UpperChar(c) == IF c \in DOMAIN UpperOf THEN UpperOf[c] ELSE c

Upper(s) == [i \in 1..Len(s) |-> UpperChar(s[i])]

\* The characters re.sub(r'[^\d.\sLMKGT]', '', size_str) keeps
KeptBySub(c) == c \in Digits \cup Whitespace \cup {".", "L", "M", "K", "G", "T"}

RECURSIVE Sub(_)
Sub(s) ==
    IF s = <<>> THEN <<>>
    ELSE (IF KeptBySub(Head(s)) THEN <<Head(s)>> ELSE <<>>) \o Sub(Tail(s))

\* The last position of the run of digits that starts at i
RECURSIVE DigitRunEnd(_, _)
DigitRunEnd(s, i) ==
    IF IsDigitAt(s, i + 1) THEN DigitRunEnd(s, i + 1) ELSE i

\* The first position at or after i that holds no whitespace
RECURSIVE SkipSpace(_, _)
SkipSpace(s, i) ==
    IF i <= Len(s) /\ s[i] \in Whitespace THEN SkipSpace(s, i + 1) ELSE i

\* Whether the characters of unit stand in s from position i on
StartsWithAt(s, i, unit) ==
    /\ i + Len(unit) - 1 <= Len(s)
    /\ \A k \in 1..Len(unit) : s[i + k - 1] = unit[k]

\* r'(\d+(?:\.\d+)?)\s*' followed by unit, tried at position i: the group
\* with its fraction first (the optional group is greedy), then without.
\* A shorter run of digits never matches: a digit would follow it.
MatchNumberAt(s, i, unit) ==
    IF ~IsDigitAt(s, i) THEN [ok |-> FALSE]
    ELSE LET j       == DigitRunEnd(s, i)
             hasFrac == j + 2 <= Len(s) /\ s[j + 1] = "." /\ IsDigitAt(s, j + 2)
             k       == IF hasFrac THEN DigitRunEnd(s, j + 2) ELSE j
         IN  IF hasFrac /\ StartsWithAt(s, SkipSpace(s, k + 1), unit)
             THEN [ok |-> TRUE, ip |-> SubSeq(s, i, j), fp |-> SubSeq(s, j + 2, k)]
             ELSE IF StartsWithAt(s, SkipSpace(s, j + 1), unit)
             THEN [ok |-> TRUE, ip |-> SubSeq(s, i, j), fp |-> <<>>]
             ELSE [ok |-> FALSE]

\* re.search of the pattern: the match at the leftmost position
RECURSIVE SearchNumber(_, _, _)
SearchNumber(s, i, unit) ==
    IF i > Len(s) THEN [ok |-> FALSE]
    ELSE IF MatchNumberAt(s, i, unit).ok THEN MatchNumberAt(s, i, unit)
    ELSE SearchNumber(s, i + 1, unit)

\* The number of digits of ds from its first digit that is not 0
SignificantDigits(ds) ==
    Len(ds) - (IF \A i \in 1..Len(ds) : ds[i] = "0" THEN Len(ds)
               ELSE MinOf({i \in 1..Len(ds) : ds[i] # "0"}) - 1)

\* float(match.group(1))
FloatOfGroup(g) ==
    IF SignificantDigits(g.ip) > FloatMaxDigits THEN FloatInf
    ELSE FloatOfDecimal(DecVal(g.ip \o g.fp), Len(g.fp))

\* ml_match = re.search(r'(\d+(?:\.\d+)?)\s*ML', size_str)
ml_match(s) == SearchNumber(s, 1, <<"M", "L">>)

\* liter_match = re.search(r'(\d+(?:\.\d+)?)\s*L', size_str)
liter_match(s) == SearchNumber(s, 1, <<"L">>)

\* num_match = re.search(r'(\d+(?:\.\d+)?)', size_str)
num_match(s) == SearchNumber(s, 1, <<>>)

\* The cleaned string the patterns are searched in
CleanSize(raw) == Sub(Strip(Upper(raw)))

_normalize_size(raw) ==
    IF raw = None \/ raw = <<>> THEN None
    ELSE LET s == CleanSize(raw)
         IN  IF ml_match(s).ok
             THEN int_of_float(FloatOfGroup(ml_match(s)))
             ELSE IF liter_match(s).ok
             THEN int_of_float(FloatTimes(FloatOfGroup(liter_match(s)), 1000))
             ELSE IF num_match(s).ok
             THEN LET value == FloatOfGroup(num_match(s))
                  IN  IF FloatGreater(value, 100)
                      THEN int_of_float(value)
                      ELSE int_of_float(FloatTimes(value, 1000))
             ELSE None

\* Most tokens of a size text
MaxSizeTokens == 4

\* The pieces size texts are made of
SizeTokens ==
    { <<"7", "5", "0">>, <<"0">>, <<"1">>, <<"5">>, <<"2", ".", "0", "1">>,
      <<".">>, <<" ">>, <<"M", "L">>, <<"L">>, <<"m", "l">>, <<"x">> }

RECURSIVE Flatten(_)
Flatten(ts) == IF ts = <<>> THEN <<>> ELSE Head(ts) \o Flatten(Tail(ts))

DigitCount(s) == Cardinality({i \in 1..Len(s) : s[i] \in Digits})

\* The size texts of the model.  A text holds at most six digits, so that
\* a size in milliliters stays within the integers TLC computes with.
SizeTexts(tokens) ==
    {t \in {Flatten(ts) : ts \in SeqsUpTo(SizeTokens, tokens)} :
        DigitCount(t) <= 6}

\* A run of digits that is above the largest double, alone and in a text
HugeNumber == [i \in 1..(FloatMaxDigits + 1) |-> "1"]

HugeSizeTexts == {HugeNumber, <<"x", " ">> \o HugeNumber \o <<" ">>}

InitSize ==
    /\ pc = "call"
    /\ size_str \in SizeTexts(MaxSizeTokens) \cup HugeSizeTexts \cup {None}
    /\ size_out = Unused
    /\ file = Unused /\ csv_out = Unused
    /\ item = Unused /\ master_df = Unused /\ match_out = Unused
    /\ candidates = <<>>
    /\ pdf = Unused /\ vendor_master = Unused /\ pdf_out = Unused
    /\ ref_reads = 0
    /\ log = <<>>
    /\ DateIdle
    /\ CallsIdle
    /\ DbIdle
    /\ ColumnsIdle
    /\ PageIdle

NormalizeSize ==
    /\ pc = "call"
    /\ size_out' = _normalize_size(size_str)
    /\ pc' = "done"
    /\ UNCHANGED <<size_str, file, csv_out, item, master_df, match_out,
                   candidates, pdf, vendor_master, pdf_out, ref_reads, log,
                   date_vars,
                   call_vars,
                   db_vars,
                   col_vars,
                   page_vars>>

NextSize == NormalizeSize

SpecSize == InitSize /\ [][NextSize]_vars


----------------------------------------------------------------------------
(* _match_product: the catalog matcher *)

MIN_MATCH_SCORE == 85

\* Most rows of a master catalog
MaxCatalogRows == 2

NameAliases == <<"Product Name", "Name", "Description", "Product Description">>

IdAliases == <<"Internal ID", "ID", "Product ID", "SKU", "Product Number">>

\* The columns a catalog of the model may have
CatalogColumns ==
    {"Product Name", "Name", "Internal ID", "SKU", "Size (ml)", "Normalized Size"}

\* Product names of the catalog.  fuzz.token_set_ratio is a function of the
\* two texts it compares; against the description of the item the four
\* names score 100, 85, 84.99 and 84 (rapidfuzz scores are floats).
CatalogNames == <<"name scoring 100", "name scoring 85",
                  "name scoring 84.99", "name scoring 84">>

CatalogSizes == {PyInt(500), PyInt(750)}

\* The description of the item the catalog names are scored against
ItemDescription == <<"W", "i", "d", "g", "e", "t", " ", "A">>

\* fuzz.token_set_ratio(item_description, master_product_name), in
\* hundredths.  Every other description of the model is unlike every
\* catalog name and scores 30.
token_set_ratio(description, name) ==
    IF description # ItemDescription THEN 3000
    ELSE CASE name = "name scoring 100"   -> 10000
           [] name = "name scoring 85"    -> 8500
           [] name = "name scoring 84.99" -> 8499
           [] name = "name scoring 84"    -> 8400

\* The cell of catalog row i under column col.  A row of the model holds
\* its product name and its size; the other name columns hold other names,
\* every identifier column an identifier of its own (or the identifier the
\* row spells out), and 'Normalized Size' the other size, so that a column
\* taken for another shows.
CatalogCell(df, i, col) ==
    CASE col \in Range(NameAliases) ->
           CatalogNames[((IndexOf(CatalogNames, df.rows[i].name) - 1
                            + IndexOf(NameAliases, col) - 1) % Len(CatalogNames)) + 1]
      [] col \in Range(IdAliases) ->
           IF "id" \in DOMAIN df.rows[i] THEN df.rows[i].id
           ELSE <<col, RowName(i)>>
      [] col = "Size (ml)" -> df.rows[i].size
      [] col = "Normalized Size" ->
           IF df.rows[i].size = PyInt(500) THEN PyInt(750) ELSE PyInt(500)

\* master_df.empty
Empty(df) == df.rows = <<>> \/ df.columns = {}

\* The rows (by position) of idx whose cell under col equals v, in order
RECURSIVE RowsEqual(_, _, _, _)
RowsEqual(df, idx, col, v) ==
    IF idx = <<>> THEN <<>>
    ELSE (IF CatalogCell(df, Head(idx), col) = v THEN <<Head(idx)>> ELSE <<>>)
         \o RowsEqual(df, Tail(idx), col, v)

AllRows(df) == [i \in 1..Len(df.rows) |-> i]

\* A filter that looks at 'Normalized Size' before 'Size (ml)'
size_filterNormalizedFirst(df, item_size) ==
    IF item_size # None /\ "Normalized Size" \in df.columns
    THEN RowsEqual(df, AllRows(df), "Normalized Size", item_size)
    ELSE IF item_size # None /\ "Size (ml)" \in df.columns
    THEN RowsEqual(df, AllRows(df), "Size (ml)", item_size)
    ELSE AllRows(df)

\* filtered_master after the two size filters
size_filter(df, item_size) ==
    IF item_size # None /\ "Size (ml)" \in df.columns
    THEN RowsEqual(df, AllRows(df), "Size (ml)", item_size)
    ELSE IF item_size # None /\ "Normalized Size" \in df.columns
    THEN RowsEqual(df, AllRows(df), "Normalized Size", item_size)
    ELSE AllRows(df)

\* filtered_master: the rows the scores are computed for
filtered_master(df, item_size) ==
    IF size_filter(df, item_size) = <<>> THEN AllRows(df)
    ELSE size_filter(df, item_size)

\* None where a column name is expected
NoColumn == "\\None"

\* A probe in which the last alias present wins
RECURSIVE FirstPresentLast(_, _)
FirstPresentLast(aliases, columns) ==
    IF aliases = <<>> THEN NoColumn
    ELSE IF aliases[Len(aliases)] \in columns THEN aliases[Len(aliases)]
    ELSE FirstPresentLast(SubSeq(aliases, 1, Len(aliases) - 1), columns)

\* for col in aliases: if col in filtered_master.columns: ...; break
RECURSIVE FirstPresent(_, _)
FirstPresent(aliases, columns) ==
    IF aliases = <<>> THEN NoColumn
    ELSE IF Head(aliases) \in columns THEN Head(aliases)
    ELSE FirstPresent(Tail(aliases), columns)

product_name_col(df) == FirstPresent(NameAliases, df.columns)

id_col(df) == FirstPresent(IdAliases, df.columns)

\* An acceptance test one point too strict
AcceptsAbove(score, best_score, min_score) ==
    score > best_score /\ score > min_score * 100

\* An update that also takes a score equal to the best
AcceptsTies(score, best_score, min_score) ==
    score >= best_score /\ score >= min_score * 100

\* if score > best_score and score >= min_score
Accepts(score, best_score, min_score) ==
    score > best_score /\ score >= min_score * 100

\* for _, master_row in filtered_master.iterrows(): the best match after the
\* rows idx, from the best so far
RECURSIVE ScoreRows(_, _, _, _, _, _)
ScoreRows(df, idx, description, min_score, best_score, best_match_id) ==
    IF idx = <<>> THEN best_match_id
    ELSE LET master_product_name == CatalogCell(df, Head(idx), product_name_col(df))
             score == token_set_ratio(description, master_product_name)
         IN  IF Accepts(score, best_score, min_score)
             THEN ScoreRows(df, Tail(idx), description, min_score, score,
                            CatalogCell(df, Head(idx), id_col(df)))
             ELSE ScoreRows(df, Tail(idx), description, min_score, best_score,
                            best_match_id)

\* A matcher that looks the SKU of an item without description up among the
\* identifiers of the catalog
_match_productBySku(it, df, min_score) ==
    IF Empty(df) THEN [out |-> None, log |-> <<>>, filtered |-> <<>>]
    ELSE IF it.description = <<>>
    THEN [out |-> IF /\ id_col(df) # NoColumn
                     /\ \E i \in 1..Len(df.rows) : CatalogCell(df, i, id_col(df)) = it.sku
                  THEN it.sku
                  ELSE None,
          log |-> <<>>, filtered |-> <<>>]
    ELSE [out |-> ScoreRows(df, filtered_master(df, it.normalized_size),
                            it.description, min_score, 0, None),
          log |-> <<>>,
          filtered |-> filtered_master(df, it.normalized_size)]

\* _match_product(item, master_df, min_score): the return value, what is
\* logged, and the local filtered_master (empty before it is assigned)
_match_product(it, df, min_score) ==
    IF Empty(df) THEN [out |-> None, log |-> <<>>, filtered |-> <<>>]
    ELSE IF it.description = <<>>
    THEN [out |-> None, log |-> <<>>, filtered |-> <<>>]
    ELSE IF product_name_col(df) = NoColumn
    THEN [out |-> None,
          log |-> <<LogRec("warning", "Could not find product name column in master file")>>,
          filtered |-> filtered_master(df, it.normalized_size)]
    ELSE IF id_col(df) = NoColumn
    THEN [out |-> None,
          log |-> <<LogRec("warning", "Could not find ID column in master file")>>,
          filtered |-> filtered_master(df, it.normalized_size)]
    ELSE [out |-> ScoreRows(df, filtered_master(df, it.normalized_size),
                            it.description, min_score, 0, None),
          log |-> <<>>,
          filtered |-> filtered_master(df, it.normalized_size)]

\* The SKU of an item: none, or the identifier the first row of a catalog
\* holds under 'SKU'
ItemSkus == {<<>>, <<"SKU", RowName(1)>>}

\* The items and the catalogs of the model
MatchItems ==
    [sku : ItemSkus,
     description : {<<>>, ItemDescription},
     normalized_size : {None} \cup CatalogSizes]

Catalogs ==
    [columns : SUBSET CatalogColumns,
     rows : SeqsUpTo([name : Range(CatalogNames), size : CatalogSizes],
                     MaxCatalogRows)]

InitMatch ==
    /\ pc = "call"
    /\ item \in MatchItems
    /\ master_df \in Catalogs
    /\ match_out = Unused
    /\ candidates = <<>>
    /\ file = Unused /\ csv_out = Unused
    /\ size_str = Unused /\ size_out = Unused
    /\ pdf = Unused /\ vendor_master = Unused /\ pdf_out = Unused
    /\ ref_reads = 0
    /\ log = <<>>
    /\ DateIdle
    /\ CallsIdle
    /\ DbIdle
    /\ ColumnsIdle
    /\ PageIdle

\* The rows of df at the positions ks, in that order
RowsAt(df, ks) == [k \in 1..Len(ks) |-> df.rows[ks[k]]]

\* A matcher that filters the catalog it was handed instead of a copy
MatchProductInPlace ==
    /\ pc = "call"
    /\ match_out' = _match_product(item, master_df, MIN_MATCH_SCORE).out
    /\ candidates' = _match_product(item, master_df, MIN_MATCH_SCORE).filtered
    /\ master_df' =
          [master_df EXCEPT !.rows =
              RowsAt(master_df,
                     _match_product(item, master_df, MIN_MATCH_SCORE).filtered)]
    /\ log' = log \o _match_product(item, master_df, MIN_MATCH_SCORE).log
    /\ pc' = "done"
    /\ UNCHANGED <<item, file, csv_out, size_str, size_out,
                   pdf, vendor_master, pdf_out, ref_reads,
                   date_vars,
                   call_vars,
                   db_vars,
                   col_vars,
                   page_vars>>

MatchProduct ==
    /\ pc = "call"
    /\ match_out' = _match_product(item, master_df, MIN_MATCH_SCORE).out
    /\ candidates' = _match_product(item, master_df, MIN_MATCH_SCORE).filtered
    /\ log' = log \o _match_product(item, master_df, MIN_MATCH_SCORE).log
    /\ pc' = "done"
    /\ UNCHANGED <<item, master_df, file, csv_out, size_str, size_out,
                   pdf, vendor_master, pdf_out, ref_reads,
                   date_vars,
                   call_vars,
                   db_vars,
                   col_vars,
                   page_vars>>

NextMatch == MatchProduct

SpecMatch == InitMatch /\ [][NextMatch]_vars


----------------------------------------------------------------------------
(* _extract_pdf_data: the header fields of the first page *)

\* str.lower()
LowerOf == [c \in Range(Uppercase) |-> Lowercase[IndexOf(Uppercase, c)]]

LowerChar(c) == IF c \in DOMAIN LowerOf THEN LowerOf[c] ELSE c

Lower(s) == [i \in 1..Len(s) |-> LowerChar(s[i])]

\* [A-Z0-9\-] under re.IGNORECASE
TokenChar(c) == c \in Digits \cup {"-"} \cup Range(Lowercase) \cup Range(Uppercase)

\* The last position of the run of token characters that starts at i
RECURSIVE TokenRunEnd(_, _)
TokenRunEnd(s, i) ==
    IF i + 1 <= Len(s) /\ TokenChar(s[i + 1]) THEN TokenRunEnd(s, i + 1) ELSE i

\* \s*:?\s* from position j on: the position after it.  Each part is greedy,
\* and what a part gives back no later part of the patterns can take.
AfterColon(s, j) ==
    LET a == SkipSpace(s, j)
    IN  IF a <= Len(s) /\ s[a] = ":" THEN SkipSpace(s, a + 1) ELSE a

\* The alternatives of (?:Invoice\s*#?|Invoice\s*Number|INVOICE\s*NO\.?)
\* tried at position i, letters compared without case (u is s in upper
\* case): the position after the label, 0 when the alternative does not match
InvoiceLabelEnd(s, u, i, alt) ==
    LET a == SkipSpace(s, i + 7)
    IN  IF ~StartsWithAt(u, i, <<"I", "N", "V", "O", "I", "C", "E">>) THEN 0
        ELSE CASE alt = 1 -> IF a <= Len(s) /\ s[a] = "#" THEN a + 1 ELSE a
               [] alt = 2 -> IF StartsWithAt(u, a, <<"N", "U", "M", "B", "E", "R">>) THEN a + 6 ELSE 0
               [] alt = 3 -> IF ~StartsWithAt(u, a, <<"N", "O">>) THEN 0
                             ELSE IF a + 2 <= Len(s) /\ s[a + 2] = "."
                             THEN a + 3 ELSE a + 2

\* \s*:?\s*([A-Z0-9\-]+) after a label that ends before position j
InvoiceToken(s, j) ==
    LET a == AfterColon(s, j)
    IN  IF j > 0 /\ a <= Len(s) /\ TokenChar(s[a])
        THEN [ok |-> TRUE, group |-> SubSeq(s, a, TokenRunEnd(s, a))]
        ELSE [ok |-> FALSE]

\* The whole invoice number pattern at position i: the first alternative
\* that lets the rest of the pattern match
InvoiceNumAt(s, u, i) ==
    IF InvoiceToken(s, InvoiceLabelEnd(s, u, i, 1)).ok
    THEN InvoiceToken(s, InvoiceLabelEnd(s, u, i, 1))
    ELSE IF InvoiceToken(s, InvoiceLabelEnd(s, u, i, 2)).ok
    THEN InvoiceToken(s, InvoiceLabelEnd(s, u, i, 2))
    ELSE InvoiceToken(s, InvoiceLabelEnd(s, u, i, 3))

\* The leftmost match of the invoice number pattern in s
InvoiceNumSearch(s, u) ==
    LET at == {i \in 1..Len(s) : InvoiceNumAt(s, u, i).ok}
    IN  IF at = {} THEN [ok |-> FALSE] ELSE InvoiceNumAt(s, u, MinOf(at))

\* invoice_num_match = re.search(..., text, re.IGNORECASE): leftmost match
invoice_num_match(text) == InvoiceNumSearch(text, Upper(text))

\* The number of digits that stand in s from position i on
DigitRun(s, i) == IF IsDigitAt(s, i) THEN DigitRunEnd(s, i) - i + 1 ELSE 0

IsDateSep(s, i) == i <= Len(s) /\ s[i] \in {"/", "-"}

\* (\d{1,2}[/\-]\d{1,2}[/\-]\d{2,4}) at position a.  A run of three digits
\* before a separator does not match, the last run gives at most four.
DateGroupAt(s, a) ==
    LET n1 == DigitRun(s, a)
        b  == a + n1 + 1
        n2 == DigitRun(s, b)
        c  == b + n2 + 1
        n3 == DigitRun(s, c)
    IN  IF /\ n1 \in 1..2 /\ IsDateSep(s, a + n1)
           /\ n2 \in 1..2 /\ IsDateSep(s, b + n2)
           /\ n3 >= 2
        THEN [ok |-> TRUE,
              group |-> SubSeq(s, a, c + (IF n3 > 4 THEN 4 ELSE n3) - 1)]
        ELSE [ok |-> FALSE]

\* The alternatives of (?:Date|Invoice\s*Date) tried at position i
DateLabelEnd(s, u, i, alt) ==
    CASE alt = 1 -> IF StartsWithAt(u, i, <<"D", "A", "T", "E">>) THEN i + 4 ELSE 0
      [] alt = 2 -> IF /\ StartsWithAt(u, i, <<"I", "N", "V", "O", "I", "C", "E">>)
                       /\ StartsWithAt(u, SkipSpace(s, i + 7), <<"D", "A", "T", "E">>)
                    THEN SkipSpace(s, i + 7) + 4 ELSE 0

DateAfterLabel(s, j) ==
    IF j > 0 THEN DateGroupAt(s, AfterColon(s, j)) ELSE [ok |-> FALSE]

DateAt(s, u, i) ==
    IF DateAfterLabel(s, DateLabelEnd(s, u, i, 1)).ok
    THEN DateAfterLabel(s, DateLabelEnd(s, u, i, 1))
    ELSE DateAfterLabel(s, DateLabelEnd(s, u, i, 2))

\* The leftmost match of the date pattern in s
DateSearch(s, u) ==
    LET at == {i \in 1..Len(s) : DateAt(s, u, i).ok}
    IN  IF at = {} THEN [ok |-> FALSE] ELSE DateAt(s, u, MinOf(at))

\* date_match = re.search(..., text, re.IGNORECASE): leftmost match
date_match(text) == DateSearch(text, Upper(text))

----------------------------------------------------------------------------
(* _extract_pdf_data: the tables *)

\* if cell: / if value: for a cell, which is None or a text
Truthy(v) == v # None /\ v # <<>>

\* term in cell_lower
Contains(hay, needle) ==
    \E i \in 1..(Len(hay) - Len(needle) + 1) : StartsWithAt(hay, i, needle)

sku_terms == <<<<"s", "k", "u">>, <<"i", "t", "e", "m">>, <<"p", "r", "o", "d", "u", "c", "t", " ", "n", "u", "m", "b", "e", "r">>, <<"c", "o", "d", "e">>>>

desc_terms == <<<<"d", "e", "s", "c", "r", "i", "p", "t", "i", "o", "n">>, <<"p", "r", "o", "d", "u", "c", "t">>, <<"i", "t", "e", "m", " ", "d", "e", "s", "c", "r", "i", "p", "t", "i", "o", "n">>>>

qty_terms == <<<<"q", "t", "y">>, <<"q", "u", "a", "n", "t", "i", "t", "y">>, <<"q", "t", "y", ".">>, <<"q", "t", "y", ":">>>>

price_terms == <<<<"p", "r", "i", "c", "e">>, <<"u", "n", "i", "t", " ", "p", "r", "i", "c", "e">>, <<"u", "n", "i", "t", " ", "c", "o", "s", "t">>, <<"c", "o", "s", "t">>>>

size_terms == <<<<"s", "i", "z", "e">>, <<"v", "o", "l", "u", "m", "e">>, <<"m", "l">>, <<"m", "l", ":">>, <<"s", "i", "z", "e", " ", "(", "m", "l", ")">>>>

\* _find_column_index(header_row, search_terms): the cells in order, for
\* each cell the terms; the index (from 0) of the first cell that holds a
\* term, or None
_find_column_index(header_row, search_terms) ==
    LET hits == {i \in 1..Len(header_row) :
                    /\ Truthy(header_row[i])
                    /\ \E k \in 1..Len(search_terms) :
                          Contains(Strip(Lower(header_row[i])),
                                   Lower(search_terms[k]))}
    IN  IF header_row = <<>> \/ hits = {} THEN None
        ELSE PyInt(MinOf(hits) - 1)

\* _safe_get(row, index, default)
_safe_get(row, index, default) ==
    IF index = None THEN default
    ELSE IF index[2] >= Len(row) THEN default
    ELSE IF row[index[2] + 1] # None THEN row[index[2] + 1]
    ELSE default

\* max_idx = max(indices) if indices else 0
max_idx(idxs) ==
    LET indices == {idxs[k][2] : k \in {n \in 1..Len(idxs) : idxs[n] # None}}
    IN  IF indices # {} THEN MaxOf(indices) ELSE 0

\* A choice that falls back to the description when the size text gives
\* no size
size_or_descriptionUnparsed(size, description) ==
    IF _normalize_size(size) # None THEN size ELSE description

\* The size text that is normalized: size if size else description
size_or_description(size, description) ==
    IF size # <<>> THEN size ELSE description

\* The column positions found in the header row of a table
column_indices(header_row) ==
    [sku_idx   |-> _find_column_index(header_row, sku_terms),
     desc_idx  |-> _find_column_index(header_row, desc_terms),
     qty_idx   |-> _find_column_index(header_row, qty_terms),
     price_idx |-> _find_column_index(header_row, price_terms),
     size_idx  |-> _find_column_index(header_row, size_terms)]

\* extracted_items.append({...}) for a row that is not skipped
extracted_item(invoice_number, invoice_date, sku, description, quantity, unit_price, size) ==
    IF description = <<>> /\ sku = <<>> THEN <<>>
    ELSE << [invoice_number  |-> invoice_number,
             invoice_date    |-> invoice_date,
             sku             |-> sku,
             description     |-> description,
             quantity        |-> quantity,
             unit_price      |-> unit_price,
             size            |-> size,
             normalized_size |->
                 _normalize_size(size_or_description(size, description))] >>

\* The body of 'for row in table[1:]' for one row: the item that is
\* appended, if one is
ItemsOfRow(row, idx, invoice_number, invoice_date) ==
    IF row = <<>>
         \/ Len(row) <= max_idx(<<idx.sku_idx, idx.desc_idx, idx.qty_idx,
                                  idx.price_idx>>)
    THEN <<>>
    ELSE extracted_item(invoice_number, invoice_date,
                        Strip(_safe_get(row, idx.sku_idx, <<>>)),
                        Strip(_safe_get(row, idx.desc_idx, <<>>)),
                        Strip(_safe_get(row, idx.qty_idx, <<>>)),
                        Strip(_safe_get(row, idx.price_idx, <<>>)),
                        Strip(_safe_get(row, idx.size_idx, <<>>)))

\* for row in table[1:], from data row k on
RECURSIVE ItemsOfRows(_, _, _, _, _)
ItemsOfRows(table, k, idx, invoice_number, invoice_date) ==
    IF k > Len(table) THEN <<>>
    ELSE ItemsOfRow(table[k], idx, invoice_number, invoice_date)
         \o ItemsOfRows(table, k + 1, idx, invoice_number, invoice_date)

\* The body of 'for table in tables' for one table
ItemsOfTable(table, invoice_number, invoice_date) ==
    IF table = <<>> \/ Len(table) < 2 THEN <<>>
    ELSE ItemsOfRows(table, 2, column_indices(table[1]), invoice_number,
                     invoice_date)

RECURSIVE ItemsOfTables(_, _, _)
ItemsOfTables(tables, invoice_number, invoice_date) ==
    IF tables = <<>> THEN <<>>
    ELSE ItemsOfTable(Head(tables), invoice_number, invoice_date)
         \o ItemsOfTables(Tail(tables), invoice_number, invoice_date)

\* for page_num, page in enumerate(pdf.pages): the items of the pages after
\* extracted_items, or the exception of the page whose extract_tables()
\* raises
RECURSIVE ItemsOfPages(_, _, _, _)
RECURSIVE AfterPage(_, _, _, _, _)
\* A loop that stops at the page whose extract_tables() raises and keeps the
\* items it has
ItemsOfPagesPartial(pages, extracted_items, invoice_number, invoice_date) ==
    IF pages = <<>> \/ Head(pages).broken THEN Returned(extracted_items)
    ELSE AfterPage(pages, extracted_items,
                   ItemsOfTables(Head(pages).tables, invoice_number,
                                 invoice_date),
                   invoice_number, invoice_date)

ItemsOfPages(pages, extracted_items, invoice_number, invoice_date) ==
    IF pages = <<>> THEN Returned(extracted_items)
    ELSE IF Head(pages).broken
    THEN Raised(Exc("PDFSyntaxError", <<Head(pages).message>>))
    ELSE AfterPage(pages, extracted_items,
                   ItemsOfTables(Head(pages).tables, invoice_number,
                                 invoice_date),
                   invoice_number, invoice_date)

\* The loop after the tables of the first of pages gave page_items: the
\* error _normalize_size raised for one of them, or the pages that follow
AfterPage(pages, extracted_items, page_items, invoice_number, invoice_date) ==
    IF \E k \in 1..Len(page_items) :
          page_items[k].normalized_size = OverflowError
    THEN Raised(Exc("OverflowError", <<OverflowError[3]>>))
    ELSE ItemsOfPages(Tail(pages), extracted_items \o page_items,
                      invoice_number, invoice_date)

\* if match: field = match.group(1).strip(), the field being None before
group_or_None(match) == IF match.ok THEN Strip(match.group) ELSE None

\* except Exception as e: the error _extract_pdf_data raises in its place
except_Exception_extract(e) ==
    Raised(Exc("ValueError", <<"Failed to extract data from PDF: ">> \o e.msg))

\* The try block of _extract_pdf_data
try_extract(doc) ==
    IF doc.kind = "unreadable"
    THEN Raised(Exc("PDFSyntaxError", <<doc.message>>))
    ELSE IF doc.pages = <<>> THEN Returned(<<>>)
    ELSE LET text == doc.pages[1].text
         IN  IF text = None
             THEN Raised(Exc("TypeError",
                     <<"expected string or bytes-like object, got 'NoneType'">>))
             ELSE ItemsOfPages(doc.pages, <<>>,
                               group_or_None(invoice_num_match(text)),
                               group_or_None(date_match(text)))

\* The except clause of _extract_pdf_data around the result t of its try
\* block: what the caller gets, and what is logged
extract_outcome(t) ==
    IF t.raised
    THEN [out |-> except_Exception_extract(t.exc),
          log |-> <<LogRec("error", "Error extracting PDF data")>>]
    ELSE [out |-> t, log |-> <<>>]

\* _extract_pdf_data(file)
_extract_pdf_data(doc) == extract_outcome(try_extract(doc))

----------------------------------------------------------------------------
(* process_pdf_invoice: the unstructured lane *)

\* Most pages of a document, most data rows of a table
MaxPages == 2

MaxDataRows == 2

\* The header row of the tables of the model
HeaderRow == <<<<"S", "K", "U">>, <<"D", "e", "s", "c", "r", "i", "p", "t", "i", "o", "n">>, <<"Q", "t", "y">>, <<"U", "n", "i", "t", " ", "P", "r", "i", "c", "e">>, <<"S", "i", "z", "e">>>>

\* A header row whose first cell holds a SKU term and a description term
ItemHeaderRow == <<<<"I", "t", "e", "m", " ", "D", "e", "s", "c", "r", "i", "p", "t", "i", "o", "n">>, <<"C", "o", "d", "e">>, <<"Q", "u", "a", "n", "t", "i", "t", "y">>>>

\* The data rows of the model, under HeaderRow: a product of the catalog, a
\* product unlike any of the catalog with its size in the description, a row
\* without SKU and description, a row cut short, a row with a SKU only, and
\* a row with a size text that is no size and a size in its description
RowSamples ==
    { <<<<"S", "-", "1">>, ItemDescription, <<"2">>, <<"9", ".", "9", "9">>, <<"7", "5", "0", "M", "L">>>>,
      <<<<"S", "-", "2">>, <<"G", "i", "z", "m", "o", " ", "1", "L">>, <<"1">>, <<"5", ".", "0", "0">>, None>>,
      <<None, <<" ">>, <<"3">>, <<"1", ".", "0", "0">>, <<"7", "5", "0", "M", "L">>>>,
      <<<<"S", "-", "3">>>>,
      <<<<"S", "-", "4">>, None, <<"1">>, <<>>, <<"n", "/", "a">>>>,
      <<<<"S", "-", "5">>, <<"G", "i", "z", "m", "o", " ", "1", "L">>, <<"1">>, <<"5", ".", "0", "0">>, <<"n", "/", "a">>>> }

\* What page.extract_tables() gives for one table
Tables ==
    {<<HeaderRow>> \o rows : rows \in SeqsUpTo(RowSamples, MaxDataRows)}
        \cup { <<>>, <<ItemHeaderRow, <<ItemDescription, <<"S", "-", "1">>, <<"2">>>>>> }

\* The text of the first page in the documents whose tables vary
HeaderText == <<"I", "n", "v", "o", "i", "c", "e", " ", "#", ":", " ", "A", "-", "1", "\n", "D", "a", "t", "e", ":", " ", "1", "/", "5", "/", "2", "0", "2", "4">>

\* The texts of the first page in the documents whose header varies; None
\* is what page.extract_text() gives for a page without text
FirstPageTexts ==
    { None, <<>>, <<"I", "n", "v", "o", "i", "c", "e", " ", "N", "u", "m", "b", "e", "r", ":", " ", "1", "2", "3", "4", "5">>,
      <<"I", "N", "V", "O", "I", "C", "E", " ", "N", "O", ".", " ", "7", "7", " ", "I", "n", "v", "o", "i", "c", "e", " ", "D", "a", "t", "e", " ", "0", "1", "-", "0", "5", "-", "2", "4">> }

Page(text, tables) ==
    [text |-> text, tables |-> tables, broken |-> FALSE, message |-> ""]

\* A page whose extract_tables() raises
BrokenPage ==
    [text |-> HeaderText, tables |-> <<>>, broken |-> TRUE,
     message |-> "Unexpected EOF"]

FirstPages ==
    {Page(HeaderText, <<>>), BrokenPage}
        \cup {Page(HeaderText, <<t>>) : t \in Tables}

\* The pages after the first: without tables, with two tables, and one
\* that cannot be read
LaterPages ==
    { Page(<<>>, <<>>),
      Page(<<>>, << <<HeaderRow, <<<<"S", "-", "2">>, <<"G", "i", "z", "m", "o", " ", "1", "L">>, <<"1">>, <<"5", ".", "0", "0">>, None>>>>,
                    <<HeaderRow, <<<<"S", "-", "1">>, ItemDescription, <<"2">>, <<"9", ".", "9", "9">>, <<"7", "5", "0", "M", "L">>>>>> >>),
      BrokenPage }

\* The first pages of the documents of several pages: those whose table
\* repeats one data row
LeadingPages == {p \in FirstPages : \A t \in 1..Len(p.tables) : \A r \in 2..Len(p.tables[t]) : p.tables[t][r] = p.tables[t][2]}

\* The uploaded documents: bytes pdfplumber cannot open, or pages
Documents ==
    { [kind |-> "unreadable", message |-> "No /Root object! - Is this really a PDF?"],
      [kind |-> "document", pages |-> <<>>] }
        \cup { [kind |-> "document", pages |-> <<p>>] : p \in FirstPages }
        \cup { [kind |-> "document", pages |-> <<p>> \o later] :
                 p \in LeadingPages, later \in SeqsUpTo(LaterPages, MaxPages - 1) }
        \cup { [kind |-> "document",
                pages |-> << Page(text, << <<HeaderRow,
                               <<<<"S", "-", "1">>, ItemDescription, <<"2">>, <<"9", ".", "9", "9">>, <<"7", "5", "0", "M", "L">>>>>> >>) >>] :
                 text \in FirstPageTexts }

\* The catalogs at vendor_master_file_path
PdfCatalogColumns == {"Product Name", "Internal ID", "Size (ml)"}

NoMatch == <<"N", "o", " ", "M", "a", "t", "c", "h">>

\* The last catalog has a product whose identifier reads No Match
PdfCatalogs ==
    { [columns |-> PdfCatalogColumns, rows |-> <<>>],
      [columns |-> PdfCatalogColumns,
       rows |-> <<[name |-> "name scoring 84", size |-> PyInt(750)]>>],
      [columns |-> PdfCatalogColumns,
       rows |-> <<[name |-> "name scoring 84", size |-> PyInt(500)],
                  [name |-> "name scoring 100", size |-> PyInt(750)]>>],
      [columns |-> {"Internal ID", "Size (ml)"},
       rows |-> <<[name |-> "name scoring 100", size |-> PyInt(750)]>>],
      [columns |-> PdfCatalogColumns,
       rows |-> <<[name |-> "name scoring 100", size |-> PyInt(750),
                   id |-> NoMatch]>>] }

\* What is at vendor_master_file_path: nothing, a file that may not be
\* read, a file that is no CSV, or a catalog
VendorMasters ==
    { [kind |-> "missing", path |-> "vendor_master.csv"],
      [kind |-> "denied", path |-> "vendor_master.csv"],
      [kind |-> "malformed", path |-> "vendor_master.csv"] }
        \cup { [kind |-> "table", path |-> "vendor_master.csv", df |-> df] :
                 df \in PdfCatalogs }

\* pd.read_csv(vendor_master_file_path)
read_master(vm) ==
    CASE vm.kind = "missing" ->
           Raised(Exc("FileNotFoundError", <<"[Errno 2] No such file or directory: ", vm.path>>))
      [] vm.kind = "denied" ->
           Raised(Exc("PermissionError", <<"[Errno 13] Permission denied: ", vm.path>>))
      [] vm.kind = "malformed" ->
           Raised(Exc("ParserError", <<"Error tokenizing data. C error: Expected 3 fields in line 3, saw 5">>))
      [] vm.kind = "table" -> Returned(vm.df)

\* A load with one except clause: every failure reported as a missing file
load_masterNotFound(vm) ==
    IF ~read_master(vm).raised THEN read_master(vm)
    ELSE Raised(Exc("FileNotFoundError",
                    <<"Vendor master file not found: ", vm.path>>))

\* The load of the vendor master file, with its two except clauses
load_master(vm) ==
    LET r == read_master(vm)
    IN  IF ~r.raised THEN r
        ELSE IF r.exc.cls = "FileNotFoundError"
        THEN Raised(Exc("FileNotFoundError",
                        <<"Vendor master file not found: ", vm.path>>))
        ELSE Raised(Exc("ValueError",
                        <<"Error loading vendor master file: ">> \o r.exc.msg))

\* An extraction that leaves the sentinel out
MatchedInternalIDRaw(matched_id) == matched_id

\* matched_id if matched_id else 'No Match'
MatchedInternalID(matched_id) ==
    IF Truthy(matched_id) THEN matched_id ELSE NoMatch

\* result_row for one item
result_row(it, matched_id) ==
    ("Invoice Number" :> it.invoice_number)
        @@ ("Invoice Date" :> it.invoice_date)
        @@ ("SKU" :> it.sku)
        @@ ("Description" :> it.description)
        @@ ("Quantity" :> it.quantity)
        @@ ("Unit Price" :> it.unit_price)
        @@ ("Normalized Size (ml)" :> it.normalized_size)
        @@ ("Matched Internal ID" :> MatchedInternalID(matched_id))

\* for item in extracted_data: the rows of the result
result_rows(extracted_data, df) ==
    [k \in 1..Len(extracted_data) |->
        result_row(extracted_data[k],
                   _match_product(extracted_data[k], df, MIN_MATCH_SCORE).out)]

\* What the matcher logs over the items
RECURSIVE match_logs(_, _)
match_logs(extracted_data, df) ==
    IF extracted_data = <<>> THEN <<>>
    ELSE _match_product(Head(extracted_data), df, MIN_MATCH_SCORE).log
         \o match_logs(Tail(extracted_data), df)

\* A check of the extracted data that lets an empty list through
no_extracted_dataNever(extracted_data) == FALSE

\* if not extracted_data
no_extracted_data(extracted_data) == extracted_data = <<>>

\* The lines of process_pdf_invoice after the vendor master file is
\* loaded, m being what the load gave
match_items(x, m) ==
    IF m.raised THEN [out |-> m, reads |-> 1, log |-> x.log]
    ELSE [out |-> Returned(result_rows(x.out.value, m.value)),
          reads |-> 1,
          log |-> x.log \o match_logs(x.out.value, m.value)
                    \o <<LogRec("info", "Successfully processed PDF invoice")>>]

\* A call that loads the vendor master file before it looks at what the
\* extraction gave
after_extractionLoadFirst(x, vm) ==
    IF load_master(vm).raised
    THEN [out |-> load_master(vm), reads |-> 1, log |-> x.log]
    ELSE IF x.out.raised THEN [out |-> x.out, reads |-> 1, log |-> x.log]
    ELSE IF no_extracted_data(x.out.value)
    THEN [out |-> Raised(Exc("ValueError",
                     <<"Could not extract any data from PDF invoice.">>)),
          reads |-> 1, log |-> x.log]
    ELSE match_items(x, load_master(vm))

\* The lines of process_pdf_invoice after the extraction, x being what
\* _extract_pdf_data gave and logged
after_extraction(x, vm) ==
    IF x.out.raised THEN [out |-> x.out, reads |-> 0, log |-> x.log]
    ELSE IF no_extracted_data(x.out.value)
    THEN [out |-> Raised(Exc("ValueError",
                     <<"Could not extract any data from PDF invoice.">>)),
          reads |-> 0, log |-> x.log]
    ELSE match_items(x, load_master(vm))

\* except Exception as e: every exception is logged and raised again
except_Exception_process(r) ==
    IF r.out.raised
    THEN [out |-> r.out, reads |-> r.reads,
          log |-> r.log \o <<LogRec("error", "Error processing PDF invoice")>>]
    ELSE r

\* process_pdf_invoice(file, vendor_master_file_path): what it returns or
\* raises, the number of reads of the vendor master file, and what is logged
process_pdf_invoice(doc, vm) ==
    except_Exception_process(after_extraction(_extract_pdf_data(doc), vm))

InitPdf ==
    /\ pc = "call"
    /\ pdf \in Documents
    /\ vendor_master \in VendorMasters
    /\ pdf_out = Unused
    /\ ref_reads = 0
    /\ file = Unused /\ csv_out = Unused
    /\ size_str = Unused /\ size_out = Unused
    /\ item = Unused /\ master_df = Unused /\ match_out = Unused
    /\ candidates = <<>>
    /\ log = <<>>
    /\ DateIdle
    /\ CallsIdle
    /\ DbIdle
    /\ ColumnsIdle
    /\ PageIdle

ProcessPdfInvoice ==
    /\ pc = "call"
    /\ \E r \in {process_pdf_invoice(pdf, vendor_master)} :
          /\ pdf_out' = r.out
          /\ ref_reads' = ref_reads + r.reads
          /\ log' = log \o r.log
    /\ pc' = "done"
    /\ UNCHANGED <<pdf, vendor_master, file, csv_out, size_str, size_out,
                   item, master_df, match_out, candidates,
                   date_vars,
                   call_vars,
                   db_vars,
                   col_vars,
                   page_vars>>

NextPdf == ProcessPdfInvoice

SpecPdf == InitPdf /\ [][NextPdf]_vars

----------------------------------------------------------------------------
(* Concurrent calls of process_fintech_csv and process_pdf_invoice.  Each   *)
(* call runs the statements of its function in order, on local variables   *)
(* of its own; the calls share the module's logger and the file at         *)
(* vendor_master_file_path, and their steps interleave in any order.       *)

\* The number of calls in flight
MaxCalls == 2

\* The uploads of the structured lane: no data, and the required columns
\* and one more with a dated row
ConcurrentCsvFiles ==
    { [kind |-> "empty", columns |-> <<>>, dates |-> <<>>],
      [kind |-> "table", columns |-> FINTECH_REQUIRED_COLUMNS \o <<"Store">>,
       dates |-> << <<"2", "0", "2", "4", "-", "0", "1", "-", "1", "5", " ",
                      "1", "0", ":", "3", "0">> >>] }

\* The uploads of the unstructured lane: the documents of two pages whose
\* first page lists one product (the second page has no table, two tables,
\* or cannot be read)
ConcurrentDocuments ==
    { d \in Documents :
           /\ d.kind = "document"
           /\ Len(d.pages) = 2
           /\ d.pages[1] = Page(HeaderText, << <<HeaderRow,
                 <<<<"S", "-", "2">>, <<"G", "i", "z", "m", "o", " ", "1", "L">>, <<"1">>, <<"5", ".", "0", "0">>, None>>>> >>) }

ConcurrentCalls ==
    { [fn |-> "process_fintech_csv", file |-> f] : f \in ConcurrentCsvFiles }
        \cup { [fn |-> "process_pdf_invoice", file |-> d] :
                 d \in ConcurrentDocuments }

\* The file at vendor_master_file_path: missing, or a catalog of two rows
ConcurrentVendorMasters ==
    { vm \in VendorMasters :
        vm.kind = "missing" \/ (vm.kind = "table" /\ Len(vm.df.rows) = 2) }

\* The local variables of a call before its first statement
NewFrame ==
    [df |-> None, df_filtered |-> None, extracted_data |-> None,
     master_df |-> None, result_rows |-> None, error |-> None]

\* One frame for all calls: locals kept where every call finds them
FrameShared(c) == 1

\* The frame of call c: every call has local variables of its own
Frame(c) == c

Local(c) == frames[Frame(c)]

InitCalls ==
    /\ pc = "calls"
    /\ calls \in [1..MaxCalls -> ConcurrentCalls]
    /\ call_pc = [c \in 1..MaxCalls |-> "start"]
    /\ frames = [c \in 1..MaxCalls |-> NewFrame]
    /\ results = [c \in 1..MaxCalls |-> None]
    /\ vendor_master \in ConcurrentVendorMasters
    /\ ref_reads = 0
    /\ log = <<>>
    /\ DbIdle
    /\ ColumnsIdle
    /\ PageIdle
    /\ file = Unused /\ csv_out = Unused
    /\ size_str = Unused /\ size_out = Unused
    /\ item = Unused /\ master_df = Unused /\ match_out = Unused
    /\ candidates = <<>>
    /\ pdf = Unused /\ pdf_out = Unused
    /\ DateIdle

\* The variables of the other lanes
lane_vars ==
    <<pc, file, csv_out, size_str, size_out, item, master_df, match_out,
      candidates, pdf, pdf_out, date_vars, calls, vendor_master>>

\* Call c goes to position p with its local variable v set to x
Goto(c, p, v, x) ==
    /\ call_pc' = [call_pc EXCEPT ![c] = p]
    /\ frames' = [frames EXCEPT ![Frame(c)][v] = x]

\* df = pd.read_csv(file), and the except clauses for its errors
ReadCsv(c) ==
    /\ call_pc[c] = "start"
    /\ calls[c].fn = "process_fintech_csv"
    /\ \E r \in {read_csv(calls[c].file)} :
          IF ~r.raised THEN Goto(c, "validate", "df", r.value)
          ELSE IF r.exc.cls = "EmptyDataError"
          THEN Goto(c, "raise", "error", except_EmptyDataError(r.exc))
          ELSE IF r.exc.cls = "ParserError"
          THEN Goto(c, "raise", "error", except_ParserError(r.exc))
          ELSE Goto(c, "except", "error", Raised(r.exc))
    /\ UNCHANGED <<lane_vars, results, ref_reads, log,
                   db_vars,
                   col_vars,
                   page_vars>>

\* missing_cols = [...]; if missing_cols: raise ValueError(...)
ValidateColumns(c) ==
    /\ call_pc[c] = "validate"
    /\ IF missing_cols(Local(c).df) # <<>>
       THEN Goto(c, "except", "error",
                 Raised(Exc("ValueError",
                     MissingColumnsMessage(missing_cols(Local(c).df),
                                           Local(c).df.columns))))
       ELSE Goto(c, "clean", "error", None)
    /\ UNCHANGED <<lane_vars, results, ref_reads, log,
                   db_vars,
                   col_vars,
                   page_vars>>

\* df_filtered = df[...].copy(); the Process Date column is cleaned
CleanDates(c) ==
    /\ call_pc[c] = "clean"
    /\ Goto(c, "return_csv", "df_filtered",
            apply_clean_date(df_filtered(Local(c).df)))
    /\ UNCHANGED <<lane_vars, results, ref_reads, log,
                   db_vars,
                   col_vars,
                   page_vars>>

\* logger.info(...); return df_filtered
ReturnCsv(c) ==
    /\ call_pc[c] = "return_csv"
    /\ log' = Append(log, LogRec("info", "Successfully processed Fintech CSV"))
    /\ results' = [results EXCEPT ![c] = Returned(Local(c).df_filtered)]
    /\ call_pc' = [call_pc EXCEPT ![c] = "done"]
    /\ UNCHANGED <<lane_vars, frames, ref_reads,
                   db_vars,
                   col_vars,
                   page_vars>>

\* extracted_data = self._extract_pdf_data(file); if not extracted_data: raise
ExtractPdfData(c) ==
    /\ call_pc[c] = "start"
    /\ calls[c].fn = "process_pdf_invoice"
    /\ \E x \in {_extract_pdf_data(calls[c].file)} :
          /\ log' = log \o x.log
          /\ IF x.out.raised THEN Goto(c, "except", "error", x.out)
             ELSE IF no_extracted_data(x.out.value)
             THEN Goto(c, "except", "error",
                       Raised(Exc("ValueError",
                           <<"Could not extract any data from PDF invoice.">>)))
             ELSE Goto(c, "load", "extracted_data", x.out.value)
    /\ UNCHANGED <<lane_vars, results, ref_reads,
                   db_vars,
                   col_vars,
                   page_vars>>

\* master_df = pd.read_csv(vendor_master_file_path), with its except clauses
LoadMaster(c) ==
    /\ call_pc[c] = "load"
    /\ ref_reads' = ref_reads + 1
    /\ \E m \in {load_master(vendor_master)} :
          IF m.raised THEN Goto(c, "except", "error", m)
          ELSE Goto(c, "match", "master_df", m.value)
    /\ UNCHANGED <<lane_vars, results, log,
                   db_vars,
                   col_vars,
                   page_vars>>

\* for item in extracted_data: ... result_rows.append(result_row)
MatchItemsOfCall(c) ==
    /\ call_pc[c] = "match"
    /\ Goto(c, "return_pdf", "result_rows",
            result_rows(Local(c).extracted_data, Local(c).master_df))
    /\ log' = log \o match_logs(Local(c).extracted_data, Local(c).master_df)
    /\ UNCHANGED <<lane_vars, results, ref_reads,
                   db_vars,
                   col_vars,
                   page_vars>>

\* result_df = pd.DataFrame(result_rows); logger.info(...); return result_df
ReturnPdf(c) ==
    /\ call_pc[c] = "return_pdf"
    /\ log' = Append(log, LogRec("info", "Successfully processed PDF invoice"))
    /\ results' = [results EXCEPT ![c] = Returned(Local(c).result_rows)]
    /\ call_pc' = [call_pc EXCEPT ![c] = "done"]
    /\ UNCHANGED <<lane_vars, frames, ref_reads,
                   db_vars,
                   col_vars,
                   page_vars>>

\* except Exception as e: logger.error(...); raise
ExceptLogRaise(c) ==
    /\ call_pc[c] = "except"
    /\ log' = Append(log,
                LogRec("error",
                       IF calls[c].fn = "process_fintech_csv"
                       THEN "Error processing Fintech CSV"
                       ELSE "Error processing PDF invoice"))
    /\ results' = [results EXCEPT ![c] = Local(c).error]
    /\ call_pc' = [call_pc EXCEPT ![c] = "done"]
    /\ UNCHANGED <<lane_vars, frames, ref_reads,
                   db_vars,
                   col_vars,
                   page_vars>>

\* raise ValueError(...) in the except clauses for EmptyDataError and
\* ParserError: nothing is logged
RaiseValueError(c) ==
    /\ call_pc[c] = "raise"
    /\ results' = [results EXCEPT ![c] = Local(c).error]
    /\ call_pc' = [call_pc EXCEPT ![c] = "done"]
    /\ UNCHANGED <<lane_vars, frames, ref_reads, log,
                   db_vars,
                   col_vars,
                   page_vars>>

NextCalls ==
    \E c \in 1..MaxCalls :
        \/ ReadCsv(c)
        \/ ValidateColumns(c)
        \/ CleanDates(c)
        \/ ReturnCsv(c)
        \/ ExtractPdfData(c)
        \/ LoadMaster(c)
        \/ MatchItemsOfCall(c)
        \/ ReturnPdf(c)
        \/ ExceptLogRaise(c)
        \/ RaiseValueError(c)

SpecCalls == InitCalls /\ [][NextCalls]_vars

----------------------------------------------------------------------------
(* get_approvals_by_shift (src/db.py) and get_client (src/supabase_client.py) *)

\* Most rows of the approvals table
MaxApprovals == 2

\* limit: int = 100
DefaultLimit == 100

\* A Python value handed in as shift_id: its type, its truth value, and for
\* a string whether uuid.UUID accepts it
PyValue(type, repr, truthy, uuid) ==
    [type |-> type, repr |-> repr, truthy |-> truthy, uuid |-> uuid]

ShiftA == PyValue("str", "00000000-0000-0000-0000-000000000000", TRUE, TRUE)

ShiftText == PyValue("str", "not-a-uuid", TRUE, FALSE)

ShiftIds ==
    { PyValue("NoneType", "None", FALSE, FALSE),
      PyValue("str", "", FALSE, FALSE),
      PyValue("int", "12345", TRUE, FALSE),
      PyValue("list", "[]", FALSE, FALSE),
      PyValue("dict", "{}", FALSE, FALSE),
      PyValue("list", "['x']", TRUE, FALSE),
      PyValue("str", "99999999-9999-9999-9999-999999999999", TRUE, TRUE),
      ShiftA, ShiftText }

\* The settings get_supabase_url and get_supabase_key read; "" when one is
\* neither in the secrets nor in the environment
Secrets ==
    [url : {"", "https://project.supabase.co"},
     anon_key : {"", "anon-key"},
     service_role_key : {"", "service-role-key"}]

\* No client yet (the global is None), and no approver_id in a row
NoClient == "\\None"

NoApprover == "\\None"

\* The rows of the approvals table, oldest first
ApprovalRows ==
    SeqsUpTo([shift_id : {ShiftA.repr, ShiftText.repr},
              approver_id : {NoApprover, "user-1"}], MaxApprovals)

\* The database: out of reach, answering every query with an error, or up
\* with its approvals, the auth_uuids of app_users, whether the app_users
\* query fails, and whether approvals.shift_id is a uuid column
Databases ==
    { [kind |-> k, approvals |-> <<>>, app_users |-> {}, users_fail |-> FALSE,
       uuid_column |-> FALSE] : k \in {"unavailable", "failing"} }
    \cup [kind : {"up"}, approvals : ApprovalRows,
          app_users : {{}, {"user-1"}}, users_fail : BOOLEAN,
          uuid_column : BOOLEAN]

\* validate_config()
validate_config(cfg) ==
    IF cfg.url = ""
    THEN Raised(Exc("ValueError", <<"SUPABASE_URL is required. Set it in .streamlit/secrets.toml or environment variable.">>))
    ELSE IF cfg.anon_key = ""
    THEN Raised(Exc("ValueError", <<"SUPABASE_ANON_KEY is required. Set it in .streamlit/secrets.toml or environment variable.">>))
    ELSE Returned(TRUE)

\* create_client(url, key) of the supabase library: it refuses an empty key
create_client(url, key) ==
    IF key = ""
    THEN Raised(Exc("SupabaseException", <<"supabase_key is required">>))
    ELSE Returned("client")

\* get_client(service_role=True): what it returns or raises, and the global
\* _supabase_service_client afterwards
get_client(cfg, cached) ==
    IF validate_config(cfg).raised
    THEN [out |-> validate_config(cfg), client |-> cached]
    ELSE IF cached # NoClient
    THEN [out |-> Returned(cached), client |-> cached]
    ELSE IF create_client(cfg.url, cfg.service_role_key).raised
    THEN [out |-> create_client(cfg.url, cfg.service_role_key),
          client |-> cached]
    ELSE [out |-> create_client(cfg.url, cfg.service_role_key),
          client |-> create_client(cfg.url, cfg.service_role_key).value]

\* The rows of s whose shift_id is sid, latest first
RECURSIVE SelectDesc(_, _)
SelectDesc(s, sid) ==
    IF s = <<>> THEN <<>>
    ELSE (IF s[Len(s)].shift_id = sid THEN <<s[Len(s)]>> ELSE <<>>)
         \o SelectDesc(SubSeq(s, 1, Len(s) - 1), sid)

\* client.table("approvals").select("*").eq("shift_id", shift_id)
\*       .order("created_at", desc=True).limit(limit).execute()
approvals_query(client, db, sid, limit) ==
    IF db.kind = "unavailable"
    THEN Raised(Exc("ConnectError", <<"[Errno 111] Connection refused">>))
    ELSE IF db.kind = "failing"
    THEN Raised(Exc("APIError", <<"permission denied for table approvals">>))
    ELSE IF db.uuid_column /\ ~sid.uuid
    THEN Raised(Exc("APIError", <<"invalid input syntax for type uuid">>))
    ELSE Returned(SubSeq(SelectDesc(db.approvals, sid.repr), 1,
                     IF Len(SelectDesc(db.approvals, sid.repr)) < limit
                     THEN Len(SelectDesc(db.approvals, sid.repr))
                     ELSE limit))

\* The approver data an approval is enriched with; None when the row has no
\* approver_id, when app_users has no such auth_uuid, and when the
\* app_users query raises
approver_of(db, approval) ==
    IF approval.approver_id = NoApprover THEN NoApprover
    ELSE IF db.users_fail THEN NoApprover
    ELSE IF approval.approver_id \in db.app_users
    THEN approval.approver_id
    ELSE NoApprover

\* for approval in approvals: approval['approver'] = ...
enriched(db, approvals) ==
    [k \in 1..Len(approvals) |->
        [shift_id |-> approvals[k].shift_id,
         approver_id |-> approvals[k].approver_id,
         approver |-> approver_of(db, approvals[k])]]

\* The try block of get_approvals_by_shift and its except clause, c being
\* what get_client gave
query_approvals(c, db, sid, limit) ==
    IF approvals_query(c.out.value, db, sid, limit).raised
    THEN [out |-> Returned(<<>>), client |-> c.client,
          log |-> <<LogRec("error", "[DB] get_approvals_by_shift failed")>>]
    ELSE [out |-> Returned(enriched(db,
                      approvals_query(c.out.value, db, sid, limit).value)),
          client |-> c.client,
          log |-> <<LogRec("info", "[DB] Got approvals for shift")>>]

\* The body of get_approvals_by_shift after the checks of shift_id
after_validation(c, db, sid, limit) ==
    IF c.out.raised
    THEN [out |-> c.out, client |-> c.client, log |-> <<>>]
    ELSE query_approvals(c, db, sid, limit)

\* get_approvals_by_shift(shift_id, limit), undecorated
get_approvals_by_shift(sid, limit, cfg, cached, db) ==
    IF ~sid.truthy \/ sid.type # "str"
    THEN [out |-> Returned(<<>>), client |-> cached,
          log |-> <<LogRec("warning", "[DB] Invalid shift_id")>>]
    ELSE after_validation(get_client(cfg, cached), db, sid, limit)

\* @track_api_errors: an exception is logged and raised again
track_api_errors(r) ==
    IF r.out.raised
    THEN [r EXCEPT !.log = @ \o <<LogRec("error", "[MONITOR] API Error")>>]
    ELSE r

\* @log_postgrest_errors: an exception is logged and raised again
log_postgrest_errors(r) ==
    IF r.out.raised
    THEN [r EXCEPT !.log = @ \o <<LogRec("error", "[DB Error]")>>]
    ELSE r

InitDb ==
    /\ pc = "call"
    /\ shift_id \in ShiftIds
    /\ secrets \in Secrets
    /\ service_client \in
          {NoClient} \cup (IF secrets.url # "" /\ secrets.anon_key # ""
                                /\ secrets.service_role_key # ""
                           THEN {"client"} ELSE {})
    /\ database \in Databases
    /\ approvals_out = Unused
    /\ file = Unused /\ csv_out = Unused
    /\ size_str = Unused /\ size_out = Unused
    /\ item = Unused /\ master_df = Unused /\ match_out = Unused
    /\ candidates = <<>>
    /\ pdf = Unused /\ vendor_master = Unused /\ pdf_out = Unused
    /\ ref_reads = 0
    /\ log = <<>>
    /\ DateIdle
    /\ CallsIdle
    /\ ColumnsIdle
    /\ PageIdle

\* get_approvals_by_shift(shift_id), as the decorated function is called
GetApprovalsByShift ==
    /\ pc = "call"
    /\ \E r \in {log_postgrest_errors(track_api_errors(
                    get_approvals_by_shift(shift_id, DefaultLimit, secrets,
                                           service_client, database)))} :
          /\ approvals_out' = r.out
          /\ service_client' = r.client
          /\ log' = log \o r.log
    /\ pc' = "done"
    /\ UNCHANGED <<shift_id, secrets, database, file, csv_out, size_str,
                   size_out, item, master_df, match_out, candidates, pdf,
                   vendor_master, pdf_out, ref_reads, date_vars, call_vars,
                   col_vars,
                   page_vars>>

NextDb == GetApprovalsByShift

SpecDb == InitDb /\ [][NextDb]_vars

----------------------------------------------------------------------------
(* _find_column_index: the probe of a header row *)

\* Most cells of a header row
MaxHeaderCells == 2

\* The cells of a header row: pdfplumber gives None for a cell without
\* text
HeaderCells ==
    { None, <<>>,
      <<"S", "K", "U">>,
      <<"C", "o", "d", "e">>,
      <<"I", "t", "e", "m", " ", "D", "e", "s", "c", "r", "i", "p", "t", "i", "o", "n">>,
      <<"P", "r", "o", "d", "u", "c", "t", " ", "N", "u", "m", "b", "e", "r">>,
      <<"D", "e", "s", "c", "r", "i", "p", "t", "i", "o", "n">>,
      <<" ", "Q", "T", "Y", " ">> }

\* The search terms _extract_pdf_data probes with
TermLists == {sku_terms, desc_terms, qty_terms, price_terms, size_terms}

InitColumns ==
    /\ pc = "call"
    /\ header \in SeqsUpTo(HeaderCells, MaxHeaderCells)
    /\ terms \in TermLists
    /\ column_out = Unused
    /\ file = Unused /\ csv_out = Unused
    /\ size_str = Unused /\ size_out = Unused
    /\ item = Unused /\ master_df = Unused /\ match_out = Unused
    /\ candidates = <<>>
    /\ pdf = Unused /\ vendor_master = Unused /\ pdf_out = Unused
    /\ ref_reads = 0
    /\ log = <<>>
    /\ DateIdle
    /\ CallsIdle
    /\ DbIdle
    /\ PageIdle

\* self._find_column_index(header_row, search_terms)
FindColumnIndex ==
    /\ pc = "call"
    /\ column_out' = _find_column_index(header, terms)
    /\ pc' = "done"
    /\ UNCHANGED <<header, terms, file, csv_out, size_str, size_out, item,
                   master_df, match_out, candidates, pdf, vendor_master,
                   pdf_out, ref_reads, log, date_vars, call_vars, db_vars,
                   page_vars>>

NextColumns == FindColumnIndex

SpecColumns == InitColumns /\ [][NextColumns]_vars

----------------------------------------------------------------------------
(* pages/20_Invoice_Uploader.py: the page, rerun on every interaction *)

vendor_options == <<"Fintech Export (CSV)", "Spec's (PDF)", "Wolf Express (PDF)">>

PdfVendors == {"Spec's (PDF)", "Wolf Express (PDF)"}

\* What st.file_uploader gives without a file
NoUpload == [name |-> "\\None"]

\* The files a user uploads: the extension of the name, and whether the
\* engine accepts the content (it raises otherwise)
Uploads == [name : {"invoice"}, ext : {"csv", "pdf"}, content : {"good", "rejected"}]

\* st.session_state.invoice_result_df = None
NoResult == [table |-> "\\None"]

\* The table the engine returns for a file, named by what it was made from
ResultOf(vendor, f) == [table |-> "table", vendor |-> vendor, ext |-> f.ext]

\* No click on Process Invoice so far
NoAttempt == [outcome |-> "none"]

NothingDisplayed == [shown |-> FALSE]

\* if selected_vendor == ... and file_extension != ...
InvalidFileType(vendor, f) ==
    \/ vendor = "Fintech Export (CSV)" /\ f.ext # "csv"
    \/ vendor \in PdfVendors /\ f.ext # "pdf"

\* The try block of the button: the session state after it and the attempt
ProcessInvoice(vendor, f, session) ==
    IF f.content = "good"
    THEN [session |-> ResultOf(vendor, f),
          attempt |-> [outcome |-> "success", vendor |-> vendor, ext |-> f.ext]]
    ELSE [session |-> session,
          attempt |-> [outcome |-> "failed", vendor |-> vendor, ext |-> f.ext]]

\* if st.session_state.invoice_result_df is not None: the table shown and
\* the file name of the download
DisplayResults(vendor, session) ==
    IF session # NoResult
    THEN [shown |-> TRUE, table |-> session, file_name |-> vendor]
    ELSE NothingDisplayed

\* One run of the script with the widgets at vendor and f, clicked telling
\* whether the run was started by the button
Rerun(vendor, f, clicked) ==
    /\ selected_vendor' = vendor
    /\ uploaded_file' = f
    /\ IF f = NoUpload \/ InvalidFileType(vendor, f)
       THEN /\ displayed' = NothingDisplayed
            /\ UNCHANGED <<invoice_result_df, last_attempt>>
       ELSE IF clicked
       THEN \E r \in {ProcessInvoice(vendor, f, invoice_result_df)} :
               /\ invoice_result_df' = r.session
               /\ last_attempt' = r.attempt
               /\ displayed' = DisplayResults(vendor, r.session)
       ELSE /\ displayed' = DisplayResults(vendor, invoice_result_df)
            /\ UNCHANGED <<invoice_result_df, last_attempt>>
    /\ UNCHANGED <<pc, file, csv_out, size_str, size_out, item, master_df,
                   match_out, candidates, pdf, vendor_master, pdf_out,
                   ref_reads, log, date_vars, call_vars, db_vars, col_vars>>

\* The first run of the script in a new session
InitPage ==
    /\ pc = "page"
    /\ selected_vendor = vendor_options[1]
    /\ uploaded_file = NoUpload
    /\ invoice_result_df = NoResult
    /\ displayed = NothingDisplayed
    /\ last_attempt = NoAttempt
    /\ file = Unused /\ csv_out = Unused
    /\ size_str = Unused /\ size_out = Unused
    /\ item = Unused /\ master_df = Unused /\ match_out = Unused
    /\ candidates = <<>>
    /\ pdf = Unused /\ vendor_master = Unused /\ pdf_out = Unused
    /\ ref_reads = 0
    /\ log = <<>>
    /\ DateIdle
    /\ CallsIdle
    /\ DbIdle
    /\ ColumnsIdle

\* The user picks a vendor in the selectbox
SelectVendor ==
    /\ pc = "page"
    /\ \E vendor \in Range(vendor_options) :
          /\ vendor # selected_vendor
          /\ Rerun(vendor, uploaded_file, FALSE)

\* The user uploads a file, or another file
UploadFile ==
    /\ pc = "page"
    /\ \E f \in Uploads :
          /\ f # uploaded_file
          /\ Rerun(selected_vendor, f, FALSE)

\* The user removes the file from the uploader
RemoveFile ==
    /\ pc = "page"
    /\ uploaded_file # NoUpload
    /\ Rerun(selected_vendor, NoUpload, FALSE)

\* The user clicks Process Invoice, which the page shows for a file of the
\* vendor's type
ClickProcess ==
    /\ pc = "page"
    /\ uploaded_file # NoUpload
    /\ ~InvalidFileType(selected_vendor, uploaded_file)
    /\ Rerun(selected_vendor, uploaded_file, TRUE)

NextPage == SelectVendor \/ UploadFile \/ RemoveFile \/ ClickProcess

SpecPage == InitPage /\ [][NextPage]_vars

----------------------------------------------------------------------------
(* Claims about the structured lane, checked under SpecCsv *)

RequiredSet == Range(FINTECH_REQUIRED_COLUMNS)

AbsentRequired(f) == {c \in RequiredSet : c \notin Range(f.columns)}

IsSchemaError(out) ==
    /\ out.raised
    /\ out.exc.cls = "ValueError"
    /\ out.exc.msg[1] = "Missing required columns in CSV: "

IsEmptyInputError(out) ==
    /\ out.raised
    /\ out.exc.cls = "ValueError"
    /\ out.exc.msg[1] = "The uploaded CSV file is empty."

IsMalformedInputError(out) ==
    /\ out.raised
    /\ out.exc.cls = "ValueError"
    /\ out.exc.msg[1] = "Error parsing CSV file: "

\* C1: a CSV table whose header lacks a required column fails with the
\* missing-columns ValueError (the SchemaError of the specification); no
\* table is returned, and the message names each absent required column
\* once, no column that is present, and the columns that were found.
C1_SchemaErrorNamesMissing ==
    (pc = "done" /\ file.kind = "table" /\ AbsentRequired(file) # {})
        => /\ IsSchemaError(csv_out)
           /\ Len(csv_out.exc.msg) = 4
           /\ Range(csv_out.exc.msg[2]) = AbsentRequired(file)
           /\ Len(csv_out.exc.msg[2]) = Cardinality(AbsentRequired(file))
           /\ csv_out.exc.msg[4] = file.columns

C1_Witness ==
    /\ pc = "done" /\ file.kind = "table"
    /\ Cardinality(AbsentRequired(file)) = 2
    /\ "Store" \in Range(file.columns)
    /\ Len(file.dates) = 2
    /\ IsSchemaError(csv_out)

\* C2: a CSV table that has all seven required columns gives a table with
\* exactly FINTECH_REQUIRED_COLUMNS in that order, one row per input row in
\* the input's order, and every cell but a Process Date as in the input.
C2_ProjectionKeepsRows ==
    (pc = "done" /\ file.kind = "table" /\ AbsentRequired(file) = {})
        => /\ ~csv_out.raised
           /\ csv_out.value.columns = FINTECH_REQUIRED_COLUMNS
           /\ Len(csv_out.value.rows) = Len(file.dates)
           /\ \A i \in 1..Len(file.dates) :
                 /\ DOMAIN csv_out.value.rows[i] = RequiredSet
                 /\ \A c \in RequiredSet \ {"Process Date"} :
                       csv_out.value.rows[i][c] = Cell(file, i, c)

C2_Witness ==
    /\ pc = "done" /\ file.kind = "table" /\ AbsentRequired(file) = {}
    /\ Len(file.columns) = 9
    /\ file.columns[1] = "Store"
    /\ Len(file.dates) = 2
    /\ ~csv_out.raised
    /\ csv_out.value.rows[1]["Process Date"] # file.dates[1]
    /\ csv_out.value.rows[2]["Vendor Name"] = <<"Vendor Name", "row 2">>

\* C3: an empty input fails with the empty-file ValueError and a malformed
\* CSV with the parse ValueError; the two messages differ from each other
\* and from the missing-columns message, each arises from its own cause
\* only, and the caller gets the error and no table.
C3_EmptyAndMalformedAreHardErrors ==
    pc = "done"
        => /\ (file.kind = "empty" <=> IsEmptyInputError(csv_out))
           /\ (file.kind = "malformed" <=> IsMalformedInputError(csv_out))
           /\ (IsSchemaError(csv_out) => file.kind = "table")
           /\ (file.kind \in {"empty", "malformed"} => csv_out.raised)

C3_Witness ==
    /\ pc = "done" /\ file.kind = "malformed"
    /\ IsMalformedInputError(csv_out)
    /\ ~IsEmptyInputError(csv_out) /\ ~IsSchemaError(csv_out)

----------------------------------------------------------------------------
(* Claims about the size normalizer, checked under SpecSize *)

\* The first three digits after the decimal point, as thousandths
Thousandths(fp) == DecVal(SubSeq(fp \o <<"0", "0", "0">>, 1, 3))

\* C10: on the uppercased, cleaned text the rules apply in a fixed order:
\* if a number followed by ML occurs, the result is that number truncated
\* to an integer; otherwise, if a number followed by L occurs, the result
\* is that number times 1000 truncated to an integer.
C10_RulesInOrder ==
    (pc = "done" /\ size_str \notin {None, <<>>})
        => LET s  == CleanSize(size_str)
               ml == SearchNumber(s, 1, <<"M", "L">>)
               l  == SearchNumber(s, 1, <<"L">>)
           IN  /\ ml.ok => size_out = PyInt(DecVal(ml.ip))
               /\ (~ml.ok /\ l.ok)
                    => size_out = PyInt(DecVal(l.ip) * 1000 + Thousandths(l.fp))

----------------------------------------------------------------------------
(* Claims about the catalog matcher, checked under SpecMatch *)

\* The call got as far as scoring: a catalog with rows, a description, a
\* name column and an identifier column
Scored ==
    /\ pc = "done"
    /\ ~Empty(master_df)
    /\ item.description # <<>>
    /\ product_name_col(master_df) # NoColumn
    /\ id_col(master_df) # NoColumn

\* The size column of the catalog: 'Size (ml)', otherwise 'Normalized Size'
SizeColumn ==
    IF "Size (ml)" \in master_df.columns THEN "Size (ml)"
    ELSE IF "Normalized Size" \in master_df.columns THEN "Normalized Size"
    ELSE NoColumn

\* The rows whose size equals the item's normalized size
SameSizeRows ==
    {i \in 1..Len(master_df.rows) :
        /\ SizeColumn # NoColumn
        /\ item.normalized_size # None
        /\ CatalogCell(master_df, i, SizeColumn) = item.normalized_size}

RowScore(i) ==
    token_set_ratio(item.description,
                    CatalogCell(master_df, i, product_name_col(master_df)))

RowId(i) == CatalogCell(master_df, i, id_col(master_df))

Threshold == MIN_MATCH_SCORE * 100

\* C6: the candidates are the rows of the item's size when the item has a
\* normalized size, the catalog a size column and such a row exists (an
\* identifier returned then belongs to a row of that size); otherwise they
\* are all rows of the catalog.
C6_CandidateSet ==
    (pc = "done" /\ ~Empty(master_df) /\ item.description # <<>>)
        => /\ Range(candidates) =
                 IF SameSizeRows # {} THEN SameSizeRows
                 ELSE 1..Len(master_df.rows)
           /\ (Scored /\ SameSizeRows # {} /\ match_out # None)
                 => \E i \in SameSizeRows : match_out = RowId(i)

C6_Witness ==
    /\ Scored
    /\ "Size (ml)" \in master_df.columns
    /\ "Normalized Size" \in master_df.columns
    /\ Len(master_df.rows) = 2
    /\ SameSizeRows = {2}
    /\ candidates = <<2>>
    /\ RowScore(1) > RowScore(2)
    /\ match_out = RowId(2)

\* C7: size mismatch never eliminates a good textual match: whenever some
\* catalog row scores at or above the threshold, an identifier is returned,
\* whatever the item's size and the sizes of the rows.
C7_SizeNeverEliminates ==
    (Scored /\ \E i \in 1..Len(master_df.rows) : RowScore(i) >= Threshold)
        => match_out # None

MaxScore == CHOOSE m \in {RowScore(i) : i \in Range(candidates)} :
                \A i \in Range(candidates) : RowScore(i) <= m

\* C8: with the threshold 85, a highest candidate score of 84 (or anything
\* below 85) gives None, a highest score of exactly 85 gives the identifier
\* of a candidate scoring 85, and no candidate below 85 is ever returned.
C8_AcceptanceBoundary ==
    Scored
        => /\ MaxScore < Threshold => match_out = None
           /\ MaxScore = 8500
                 => \E i \in Range(candidates) :
                        RowScore(i) = 8500 /\ match_out = RowId(i)
           /\ match_out # None
                 => \E i \in Range(candidates) :
                        RowScore(i) >= Threshold /\ match_out = RowId(i)

C8_Witness ==
    /\ Scored
    /\ Len(candidates) = 2
    /\ RowScore(candidates[1]) = 8499
    /\ RowScore(candidates[2]) = 8500
    /\ match_out = RowId(candidates[2])

\* C9: when the highest candidate score is at or above the threshold, the
\* identifier returned is that of the first candidate, in iteration order,
\* that attains it; a later candidate of equal score does not replace it.
C9_FirstMaximumWins ==
    (Scored /\ MaxScore >= Threshold)
        => LET first == CHOOSE k \in 1..Len(candidates) :
                            /\ RowScore(candidates[k]) = MaxScore
                            /\ \A j \in 1..(k - 1) :
                                  RowScore(candidates[j]) < MaxScore
           IN  match_out = RowId(candidates[first])

C9_Witness ==
    /\ Scored
    /\ Len(candidates) = 2
    /\ RowScore(candidates[1]) = RowScore(candidates[2])
    /\ RowScore(candidates[1]) >= Threshold
    /\ match_out = RowId(candidates[1])
    /\ match_out # RowId(candidates[2])

----------------------------------------------------------------------------
(* Claims about the unstructured lane, checked under SpecPdf *)

\* The ExtractionError of the specification: a ValueError with one of the
\* two messages of the extraction
IsExtractionError(e) ==
    /\ e.cls = "ValueError"
    /\ e.msg[1] \in {"Failed to extract data from PDF: ",
                     "Could not extract any data from PDF invoice."}

\* The pages of the document whose extract_tables() raises
BrokenPages ==
    IF pdf.kind = "document"
    THEN {k \in 1..Len(pdf.pages) : pdf.pages[k].broken} ELSE {}

\* The first page has text for the header patterns to search
TextReadable ==
    pdf.kind = "document" /\ (pdf.pages # <<>> => pdf.pages[1].text # None)

\* C4: the call fails with an ExtractionError and returns no table when the
\* PDF library cannot read the document (its message is attached to the
\* error) or when the pages and tables give no item at all; a table without
\* rows is never returned.
C4_ExtractionFailsHard ==
    pc = "done"
        => /\ pdf.kind = "unreadable"
                => pdf_out = Raised(Exc("ValueError",
                       <<"Failed to extract data from PDF: ", pdf.message>>))
           /\ (TextReadable /\ BrokenPages # {})
                => pdf_out = Raised(Exc("ValueError",
                       <<"Failed to extract data from PDF: ",
                         pdf.pages[MinOf(BrokenPages)].message>>))
           /\ (TextReadable /\ BrokenPages = {}
                 /\ ItemsOfPages(pdf.pages, <<>>, None, None).value = <<>>)
                => pdf_out = Raised(Exc("ValueError",
                       <<"Could not extract any data from PDF invoice.">>))
           /\ (~TextReadable \/ BrokenPages # {}
                 \/ ItemsOfPages(pdf.pages, <<>>, None, None).value = <<>>)
                => pdf_out.raised /\ IsExtractionError(pdf_out.exc)
           /\ ~pdf_out.raised => pdf_out.value # <<>>

C4_Witness ==
    /\ pc = "done"
    /\ pdf.kind = "document"
    /\ Len(pdf.pages) = 2
    /\ \A k \in 1..2 : ~pdf.pages[k].broken
    /\ pdf.pages[1].tables # <<>>
    /\ Len(pdf.pages[1].tables[1]) = 3
    /\ vendor_master.kind = "table"
    /\ pdf_out = Raised(Exc("ValueError",
                     <<"Could not extract any data from PDF invoice.">>))

\* No row of the catalog scores at or above the threshold for the item
NoCandidateFor(it, df) ==
    \/ Empty(df)
    \/ product_name_col(df) = NoColumn
    \/ \A i \in 1..Len(df.rows) :
          token_set_ratio(it.description,
                          CatalogCell(df, i, product_name_col(df)))
              < MIN_MATCH_SCORE * 100

\* The table has one row for every item, in order, and the row of an item
\* has "No Match" when the matcher has nothing for it and the matcher's
\* identifier otherwise
RowsAnswerItems(table, items, df) ==
    /\ Len(table) = Len(items)
    /\ \A k \in 1..Len(items) :
          LET m  == _match_product(items[k], df, MIN_MATCH_SCORE).out
              id == table[k]["Matched Internal ID"]
          IN  /\ table[k]["Description"] = items[k].description
              /\ NoCandidateFor(items[k], df) => id = NoMatch
              /\ m = None => id = NoMatch
              /\ m # None => id = m

\* What holds of the outcome when the extraction x gave items and the
\* vendor master file holds a catalog
NoMatchIsSoft(x) ==
    (~x.raised /\ x.value # <<>> /\ vendor_master.kind = "table")
        => /\ ~pdf_out.raised
           /\ RowsAnswerItems(pdf_out.value, x.value, vendor_master.df)

----------------------------------------------------------------------------
(* More claims about the size normalizer, checked under SpecSize *)

\* The text is a bare integer: decimal digits and nothing else
BareInteger(t) ==
    t # None /\ t # <<>> /\ \A i \in 1..Len(t) : t[i] \in Digits

\* C11: for a bare integer n without unit the result is n when n > 100 and
\* n * 1000 when n <= 100, so that 750 gives 750, 101 gives 101, 100 gives
\* 100000 and 50 gives 50000.  (The value is compared for n of at most nine
\* digits; for a longer n the result only has to be an integer.)
C11_BareIntegerHeuristic ==
    (pc = "done" /\ BareInteger(size_str))
        => /\ IsPyInt(size_out)
           /\ Len(size_str) <= 9
                => size_out = PyInt(IF DecVal(size_str) > 100
                                    THEN DecVal(size_str)
                                    ELSE DecVal(size_str) * 1000)

\* The text holds at least one decimal digit
HasDigit(t) ==
    t # None /\ \E i \in 1..Len(t) : t[i] \in Digits

\* C12: the result is None exactly when the input is empty or holds no
\* decimal digit; every input with at least one digit gives a non-negative
\* integer, and no input makes the function raise.
C12_NoneIffNoDigit ==
    pc = "done"
        => /\ (size_out = None) <=> ~HasDigit(size_str)
           /\ HasDigit(size_str) => IsPyInt(size_out) /\ size_out[2] >= 0

----------------------------------------------------------------------------
(* Claims about _clean_date, checked under SpecDate *)

\* The text has the form YYYY-MM-DD (digits and dashes, whatever the numbers)
IsYMDText(t) == Len(t) = 10 /\ IsYMDAt(t, 1)

\* C13: date normalization is idempotent: a value that already is a string
\* of the form YYYY-MM-DD is returned unchanged, and normalizing the result
\* of a normalization gives that result again.
C13_DateIdempotent ==
    /\ (pc \in {"again", "done"} /\ IsYMDText(date_in)) => date_out = date_in
    /\ pc = "done" => date_again = date_out

\* A text with a YYYY-MM-DD part that is no date: the first call cuts the
\* part out, and the second call, unable to parse it, returns it as it is
C13_Witness ==
    /\ pc = "done"
    /\ ~IsNa(date_in) /\ ~IsYMDText(date_in)
    /\ IsYMDText(date_out) /\ to_datetime(date_out).kind = "error"
    /\ date_again = date_out

\* The raw text of a value: a missing value is an empty cell
RawText(v) == IF IsNa(v) THEN <<>> ELSE v

ParseSucceeds(s) == to_datetime(s).kind = "Timestamp"

YMDStarts(s) == {i \in 1..Len(s) : IsYMDAt(s, i)}

\* C14: _clean_date never raises and resolves a raw value in three steps:
\* when the general date/time parse succeeds the result is the parsed date
\* as YYYY-MM-DD, the time of day dropped; otherwise, when the raw text has
\* a YYYY-MM-DD substring, the result is the first one; otherwise the
\* result is the raw text without its surrounding whitespace.
C14_DatePrecedence ==
    pc \in {"again", "done"}
        => date_out =
             IF ParseSucceeds(RawText(date_in))
             THEN to_datetime(RawText(date_in)).y \o <<"-">>
                  \o to_datetime(RawText(date_in)).m \o <<"-">>
                  \o to_datetime(RawText(date_in)).d
             ELSE IF YMDStarts(RawText(date_in)) # {}
                  THEN SubSeq(RawText(date_in),
                              MinOf(YMDStarts(RawText(date_in))),
                              MinOf(YMDStarts(RawText(date_in))) + 9)
                  ELSE Strip(RawText(date_in))

\* The parse fails on a text with two different YYYY-MM-DD substrings
C14_Witness ==
    /\ pc = "again"
    /\ ~IsNa(date_in) /\ ~ParseSucceeds(date_in)
    /\ Cardinality(YMDStarts(date_in)) = 2
    /\ date_out = SubSeq(date_in, MinOf(YMDStarts(date_in)),
                         MinOf(YMDStarts(date_in)) + 9)
    /\ date_out # SubSeq(date_in, MaxOf(YMDStarts(date_in)),
                         MaxOf(YMDStarts(date_in)) + 9)

----------------------------------------------------------------------------
(* Claims about the vendor master file, checked under SpecPdf *)

\* The call got as far as reading the vendor master file
LoadAttempted == pc = "done" /\ ref_reads = 1

\* ReferenceNotFoundError: the FileNotFoundError of line 112
IsReferenceNotFound(r) ==
    r = Raised(Exc("FileNotFoundError",
                   <<"Vendor master file not found: ", vendor_master.path>>))

\* ReferenceLoadError: the ValueError of line 116
IsReferenceLoadError(r) ==
    /\ r.raised
    /\ r.exc.cls = "ValueError"
    /\ r.exc.msg[1] = "Error loading vendor master file: "

\* C15 as stated: an unreadable or a missing vendor master file fails with
\* ReferenceNotFoundError, any other failure of the load with
\* ReferenceLoadError; the error reaches the caller and no table is returned.
C15_UnreadableOrMissing ==
    LoadAttempted
        => /\ vendor_master.kind \in {"missing", "denied"}
                => IsReferenceNotFound(pdf_out)
           /\ vendor_master.kind = "malformed" => IsReferenceLoadError(pdf_out)

\* C15, amended: only a missing vendor master file fails with
\* ReferenceNotFoundError; a file that is there but may not be read, like any
\* other failure of the load, fails with ReferenceLoadError.  In both cases
\* the error reaches the caller and no table is returned.
C15_MissingOnly ==
    LoadAttempted
        => /\ vendor_master.kind = "missing" => IsReferenceNotFound(pdf_out)
           /\ vendor_master.kind \in {"denied", "malformed"}
                => IsReferenceLoadError(pdf_out)
           /\ vendor_master.kind # "table" => pdf_out.raised

\* The items were extracted and the file may not be read
C15_Witness ==
    /\ LoadAttempted
    /\ vendor_master.kind = "denied"
    /\ pdf_out = Raised(Exc("ValueError",
                   <<"Error loading vendor master file: ",
                     "[Errno 13] Permission denied: ", vendor_master.path>>))

----------------------------------------------------------------------------
(* More claims about the structured lane, checked under SpecCsv *)

\* The message text holds the text inner (messages are sequences of pieces)
MessageCarries(msg, inner) ==
    \E i \in 1..Len(msg) : SubSeq(msg, i, i + Len(inner) - 1) = inner

\* C16: the error raised for an empty input and the error raised for a
\* malformed CSV both carry the message of the parser error that caused
\* them: the caller's message contains the parser's message.
C16_ParserMessageCarried ==
    (pc = "done" /\ file.kind \in {"empty", "malformed"})
        => /\ csv_out.raised
           /\ MessageCarries(csv_out.exc.msg, read_csv(file).exc.msg)

----------------------------------------------------------------------------
(* Claims about the result table, checked under SpecPdf *)

PdfPages == IF pdf.kind = "document" THEN pdf.pages ELSE <<>>

\* The data rows of the document: page, table of the page, row of the table
\* (the first row of a table is its header)
DataRowPositions ==
    UNION { UNION { {<<p, t, r>> : r \in 2..Len(PdfPages[p].tables[t])} :
                    t \in 1..Len(PdfPages[p].tables) } :
            p \in 1..Len(PdfPages) }

\* Page first, then table, then row
Before(a, b) ==
    \/ a[1] < b[1]
    \/ a[1] = b[1] /\ a[2] < b[2]
    \/ a[1] = b[1] /\ a[2] = b[2] /\ a[3] < b[3]

\* The item of a data row, if the row gives one (header fields left out)
ItemAt(pos) ==
    ItemsOfRow(PdfPages[pos[1]].tables[pos[2]][pos[3]],
               column_indices(PdfPages[pos[1]].tables[pos[2]][1]), None, None)

ItemPositions == {pos \in DataRowPositions : ItemAt(pos) # <<>>}

\* The place of a data row's item among the items of the document
Rank(pos) == Cardinality({q \in ItemPositions : Before(q, pos)}) + 1

ResultFields ==
    {"Invoice Number", "Invoice Date", "SKU", "Description", "Quantity",
     "Unit Price", "Normalized Size (ml)", "Matched Internal ID"}

\* The row of the result table is the row of the item it
RowOfItem(row, it) ==
    /\ DOMAIN row = ResultFields
    /\ row["SKU"] = it.sku
    /\ row["Description"] = it.description
    /\ row["Quantity"] = it.quantity
    /\ row["Unit Price"] = it.unit_price
    /\ row["Normalized Size (ml)"] = it.normalized_size

\* The header fields of the rows are those found on the first page
HeaderOfRows(table, invoice_number, invoice_date) ==
    \A k \in 1..Len(table) :
        /\ table[k]["Invoice Number"] = invoice_number
        /\ table[k]["Invoice Date"] = invoice_date

\* C17: the call is all or nothing.  It ends in an error, with no table, or
\* in a table with exactly one row for every extracted item, in the order
\* page, table, row, every row with all eight fields; when a page fails
\* after items were extracted, or the vendor master file cannot be loaded
\* after the extraction, the call ends in the error and nothing of the
\* items is returned.
C17_AllOrNothing ==
    pc = "done"
        => /\ pdf_out.raised => DOMAIN pdf_out = {"raised", "exc"}
           /\ (BrokenPages # {} \/ vendor_master.kind # "table")
                => pdf_out.raised
           /\ ~pdf_out.raised
                => /\ Len(pdf_out.value) = Cardinality(ItemPositions)
                   /\ \A pos \in ItemPositions :
                         RowOfItem(pdf_out.value[Rank(pos)], ItemAt(pos)[1])
                   /\ HeaderOfRows(pdf_out.value,
                         group_or_None(invoice_num_match(PdfPages[1].text)),
                         group_or_None(date_match(PdfPages[1].text)))

\* Rows of two pages: the first page's, then those of the first table of
\* the second page, then those of its second table
C17_Witness ==
    /\ pc = "done"
    /\ ~pdf_out.raised
    /\ ItemPositions = {<<1, 1, 2>>, <<2, 1, 2>>, <<2, 2, 2>>}
    /\ Len(pdf_out.value) = 3
    /\ pdf_out.value[1]["SKU"] = <<"S", "-", "4">>
    /\ pdf_out.value[2]["SKU"] = <<"S", "-", "2">>
    /\ pdf_out.value[3]["SKU"] = <<"S", "-", "1">>

----------------------------------------------------------------------------
(* The catalog handed to the matcher, checked under SpecMatch *)

\* C18: the catalog is never changed: a call of the matcher, whether it
\* finds a match, filters by size, falls back to the full catalog or
\* returns None, leaves the catalog table it was handed with the same rows,
\* in the same order, with the same values.
C18_CatalogNotMutated == [][master_df' = master_df]_vars

\* The size filter kept one of the two rows of the catalog, and the call
\* returned its identifier
C18_Witness ==
    /\ pc = "done"
    /\ Len(master_df.rows) = 2
    /\ Len(candidates) = 1
    /\ match_out # None

----------------------------------------------------------------------------
(* Claims about concurrent calls, checked under SpecCalls *)

\* What the call gives when it runs alone
Alone(call) ==
    IF call.fn = "process_fintech_csv"
    THEN process_fintech_csv(call.file).out
    ELSE process_pdf_invoice(call.file, vendor_master).out

\* C19: concurrent calls do not interact: in every interleaving of the
\* steps of the calls, each call that has ended gave its caller the result
\* or the error it gives when it runs alone.
C19_CallsDoNotInteract ==
    pc = "calls"
        => \A c \in 1..MaxCalls :
              call_pc[c] = "done" => results[c] = Alone(calls[c])

\* Two calls of process_pdf_invoice on different documents have both
\* returned a table, each after reading the vendor master file
C19_Witness ==
    /\ pc = "calls"
    /\ \A c \in 1..2 : calls[c].fn = "process_pdf_invoice"
                       /\ call_pc[c] = "done" /\ ~results[c].raised
    /\ calls[1].file # calls[2].file
    /\ results[1].value # results[2].value
    /\ ref_reads = 2

----------------------------------------------------------------------------
(* Claims about get_approvals_by_shift, checked under SpecDb *)

\* The shift_id the function itself rejects: None, empty, or no string
InvalidShiftId == ~shift_id.truthy \/ shift_id.type # "str"

\* The query of the approvals table cannot be answered
QueryFails ==
    \/ database.kind \in {"unavailable", "failing"}
    \/ database.uuid_column /\ ~shift_id.uuid

\* The settings are incomplete
Misconfigured ==
    secrets.url = "" \/ secrets.anon_key = "" \/ secrets.service_role_key = ""

\* C20: get_approvals_by_shift never raises and always returns a list, for
\* every shift_id and in every state of the database (unavailable,
\* misconfigured, failing the query); the list is empty for an invalid
\* shift_id and on any error.
C20_AlwaysAList ==
    pc = "done"
        => /\ ~approvals_out.raised
           /\ (InvalidShiftId \/ QueryFails \/ Misconfigured)
                => approvals_out = Returned(<<>>)


----------------------------------------------------------------------------
(* The early returns of the matcher, checked under SpecMatch *)

\* The identifiers the catalog holds in its identifier column
CatalogIdentifiers ==
    IF id_col(master_df) = NoColumn THEN {}
    ELSE {CatalogCell(master_df, i, id_col(master_df)) : i \in 1..Len(master_df.rows)}

\* C21: the matcher returns None at once, before it filters the catalog,
\* looks for its columns, logs or scores a row, when the catalog has no rows
\* or the description of the item is empty; the SKU of the item plays no
\* part, also when it is an identifier of the catalog.
C21_EarlyNone ==
    pc = "done" /\ (master_df.rows = <<>> \/ item.description = <<>>)
        => /\ match_out = None
           /\ candidates = <<>>
           /\ log = <<>>

\* An item without description whose SKU is an identifier of the catalog,
\* in a catalog with a name column
C21_Witness ==
    /\ pc = "done"
    /\ item.description = <<>>
    /\ item.sku # <<>>
    /\ item.sku \in CatalogIdentifiers
    /\ product_name_col(master_df) # NoColumn
    /\ match_out = None


\* The aliases of the list that are columns of the catalog
Present(aliases) == {k \in 1..Len(aliases) : aliases[k] \in master_df.columns}

\* The alias of the least position among those present
FirstAlias(aliases) ==
    aliases[CHOOSE k \in Present(aliases) : \A j \in Present(aliases) : k <= j]

\* The score of catalog row i, its name read under column col
ScoreUnder(i, col) ==
    token_set_ratio(item.description, CatalogCell(master_df, i, col))

\* C22: the name column is the first of Product Name, Name, Description,
\* Product Description the catalog has, the identifier column the first of
\* Internal ID, ID, Product ID, SKU, Product Number it has: a returned
\* identifier is the cell under that identifier column of a candidate row
\* whose name under that name column scores at least the threshold and no
\* less than any other candidate.  Without a name column or without an
\* identifier column the call returns None.
C22_FirstAliasWins ==
    pc = "done"
        => /\ (Present(NameAliases) = {} \/ Present(IdAliases) = {})
                => match_out = None
           /\ match_out # None
                => \E i \in Range(candidates) :
                      /\ match_out = CatalogCell(master_df, i, FirstAlias(IdAliases))
                      /\ ScoreUnder(i, FirstAlias(NameAliases)) >= MIN_MATCH_SCORE * 100
                      /\ \A j \in Range(candidates) :
                            ScoreUnder(j, FirstAlias(NameAliases))
                                <= ScoreUnder(i, FirstAlias(NameAliases))

\* A catalog with two name columns and two identifier columns, and a match
\* that the second name column would not have given
C22_Witness ==
    /\ pc = "done"
    /\ {"Product Name", "Name", "Internal ID", "SKU"} \subseteq master_df.columns
    /\ match_out # None
    /\ match_out[1] = "Internal ID"
    /\ \A i \in Range(candidates) : ScoreUnder(i, "Name") < MIN_MATCH_SCORE * 100


----------------------------------------------------------------------------
(* The header fields of the result table, checked under SpecPdf *)

\* The labels of an invoice number, the longer before the shorter
InvoiceLabels ==
    << <<"I", "n", "v", "o", "i", "c", "e", " ", "N", "u", "m", "b", "e", "r">>,
       <<"I", "N", "V", "O", "I", "C", "E", " ", "N", "O", ".">>,
       <<"I", "n", "v", "o", "i", "c", "e", " ", "#">>,
       <<"I", "n", "v", "o", "i", "c", "e">> >>

\* The labels the text of the first page starts with, letters compared
\* without case
LabelsOf(text) ==
    {k \in 1..Len(InvoiceLabels) : StartsWithAt(Upper(text), 1, Upper(InvoiceLabels[k]))}

\* The token that follows the whole label the text starts with, after an
\* optional colon and white space; None when none follows
TokenAfterLabel(text) ==
    LET label == InvoiceLabels[MinOf(LabelsOf(text))]
        a == AfterColon(text, Len(label) + 1)
    IN  IF a <= Len(text) /\ TokenChar(text[a])
        THEN SubSeq(text, a, TokenRunEnd(text, a))
        ELSE None

\* C23: when the text of the first page starts with one of the labels
\* Invoice, Invoice #, Invoice Number, INVOICE NO. and a token of letters,
\* digits and hyphens follows the label, every row of the result carries
\* that token as its invoice number; "Invoice Number: 12345" gives 12345.
C23_TokenAfterLabel ==
    (/\ pc = "done"
     /\ ~pdf_out.raised
     /\ PdfPages[1].text # None
     /\ LabelsOf(PdfPages[1].text) # {}
     /\ TokenAfterLabel(PdfPages[1].text) # None)
        => \A k \in 1..Len(pdf_out.value) :
              pdf_out.value[k]["Invoice Number"] = TokenAfterLabel(PdfPages[1].text)


\* The SKU and the description of a data row: its cells under the columns
\* found in the header row of its table, trimmed, empty without the column
RowField(pos, field) ==
    Strip(_safe_get(PdfPages[pos[1]].tables[pos[2]][pos[3]],
                    column_indices(PdfPages[pos[1]].tables[pos[2]][1])[field],
                    <<>>))

\* The data rows that carry a SKU or a description
CarryingPositions ==
    {pos \in DataRowPositions :
        RowField(pos, "sku_idx") # <<>> \/ RowField(pos, "desc_idx") # <<>>}

\* A document that opens, whose first page has text and whose pages all
\* give their tables
Extractable ==
    /\ pdf.kind = "document"
    /\ pdf.pages # <<>>
    /\ pdf.pages[1].text # None
    /\ \A p \in 1..Len(pdf.pages) : ~pdf.pages[p].broken

\* C24: every data row with a SKU or a description gives exactly one item
\* and every data row without both gives none: the result has one row for
\* each data row that carries a SKU or a description, in their order, each
\* with that SKU and that description, so no emitted item is without both
\* and no row that carries one is dropped.
C24_OneItemPerCarryingRow ==
    (pc = "done" /\ Extractable /\ vendor_master.kind = "table")
        => /\ CarryingPositions # {} => ~pdf_out.raised
           /\ ~pdf_out.raised
                => /\ Len(pdf_out.value) = Cardinality(CarryingPositions)
                   /\ \A pos \in CarryingPositions :
                         LET k == Cardinality({q \in CarryingPositions : Before(q, pos)}) + 1
                         IN  /\ pdf_out.value[k]["SKU"] = RowField(pos, "sku_idx")
                             /\ pdf_out.value[k]["Description"] = RowField(pos, "desc_idx")


----------------------------------------------------------------------------
(* The probe of a header row, checked under SpecColumns *)

\* Cell i of the header row holds the term, letters compared without case
CellHolds(i, term) ==
    /\ Truthy(header[i])
    /\ Contains(Strip(Lower(header[i])), Lower(term))

\* The terms that some cell of the header row holds, by their position in
\* the list
MatchingTerms ==
    {k \in 1..Len(terms) : \E i \in 1..Len(header) : CellHolds(i, terms[k])}

\* C25: the terms are probed in the order of their list: the index returned
\* is that of the first cell that holds the first term of the list held by
\* any cell, and None when no cell holds a term.
C25_PriorityOrder ==
    pc = "done"
        => column_out =
              IF MatchingTerms = {} THEN None
              ELSE PyInt(MinOf({i \in 1..Len(header) :
                                   CellHolds(i, terms[MinOf(MatchingTerms)])}) - 1)


\* C26: the size of an item is normalized from the trimmed size cell of its
\* row when that cell is not empty, and from the description when it is
\* empty or the table has no size column; a size text that gives no size
\* leaves the normalized size None, whatever the description holds.
C26_SizeTextFirst ==
    (pc = "done" /\ ~pdf_out.raised)
        => \A pos \in ItemPositions :
              pdf_out.value[Rank(pos)]["Normalized Size (ml)"] =
                  IF RowField(pos, "size_idx") # <<>>
                  THEN _normalize_size(RowField(pos, "size_idx"))
                  ELSE _normalize_size(RowField(pos, "desc_idx"))

\* Two rows: a size text that is no size beside a description that holds
\* one, and a size taken from the description of a row with an empty size
\* cell
C26_Witness ==
    /\ pc = "done"
    /\ ~pdf_out.raised
    /\ \E pos \in ItemPositions :
          /\ RowField(pos, "size_idx") = <<"n", "/", "a">>
          /\ _normalize_size(RowField(pos, "desc_idx")) = PyInt(1000)
          /\ pdf_out.value[Rank(pos)]["Normalized Size (ml)"] = None
    /\ \E pos \in ItemPositions :
          /\ column_indices(PdfPages[pos[1]].tables[pos[2]][1]).size_idx # None
          /\ RowField(pos, "size_idx") = <<>>
          /\ pdf_out.value[Rank(pos)]["Normalized Size (ml)"] = PyInt(1000)


\* The text of the first page names an invoice number, a date
HasInvoiceLabel(text) ==
    text # None /\ Contains(Upper(text), <<"I", "N", "V", "O", "I", "C", "E">>)

HasDateLabel(text) ==
    text # None /\ Contains(Upper(text), <<"D", "A", "T", "E">>)

\* C27: the two header fields are optional and found independently on the
\* first page.  A document whose pages give their tables does not fail for
\* the sake of its first page's text: with a catalog that loads, the items
\* of all pages are in the result, with a null invoice number when the text
\* has no invoice label or is missing, a null date when it has no date
\* label or is missing, and with the invoice number found whether or not a
\* date is found.
C27_HeaderOptional ==
    (/\ pc = "done"
     /\ pdf.kind = "document"
     /\ pdf.pages # <<>>
     /\ \A p \in 1..Len(pdf.pages) : ~pdf.pages[p].broken
     /\ ItemPositions # {}
     /\ vendor_master.kind = "table")
        => /\ ~pdf_out.raised
           /\ Len(pdf_out.value) = Cardinality(ItemPositions)
           /\ \A k \in 1..Len(pdf_out.value) :
                 /\ ~HasInvoiceLabel(pdf.pages[1].text)
                       => pdf_out.value[k]["Invoice Number"] = None
                 /\ ~HasDateLabel(pdf.pages[1].text)
                       => pdf_out.value[k]["Invoice Date"] = None
                 /\ (pdf.pages[1].text # None /\ invoice_num_match(pdf.pages[1].text).ok)
                       => pdf_out.value[k]["Invoice Number"] # None


\* C28: a row of the result has Matched Internal ID "No Match" exactly when
\* the matcher returned None for its item, and carries the identifier the
\* matcher returned otherwise, so that a matched row never reads like an
\* unmatched one.
C28_NoMatchIffNone ==
    (pc = "done" /\ ~pdf_out.raised)
        => \A k \in 1..Len(pdf_out.value) :
              LET m == _match_product(_extract_pdf_data(pdf).out.value[k],
                                      vendor_master.df, MIN_MATCH_SCORE).out
              IN  /\ pdf_out.value[k]["Matched Internal ID"] = NoMatch <=> m = None
                  /\ m # None => pdf_out.value[k]["Matched Internal ID"] = m


\* The document gives no item: it cannot be read, or its rows give none
GivesNoItem ==
    \/ pdf.kind = "unreadable"
    \/ ~TextReadable
    \/ BrokenPages # {}
    \/ ItemPositions = {}

\* C29: the document is extracted before the vendor master file is touched,
\* and the file is read only when the extraction gave an item: for a
\* document that gives no item the call fails with the extraction error and
\* the file is not read, also when it is missing or cannot be loaded; the
\* file is read exactly once otherwise.
C29_ExtractBeforeReference ==
    pc = "done"
        => /\ GivesNoItem
                => /\ pdf_out.raised
                   /\ IsExtractionError(pdf_out.exc)
                   /\ ~IsReferenceNotFound(pdf_out)
                   /\ ~IsReferenceLoadError(pdf_out)
                   /\ ref_reads = 0
           /\ ~GivesNoItem => ref_reads = 1

\* A document without items beside a vendor master file that is missing
C29_Witness ==
    /\ pc = "done"
    /\ pdf.kind = "document"
    /\ pdf.pages # <<>>
    /\ GivesNoItem
    /\ vendor_master.kind = "missing"
    /\ ref_reads = 0
    /\ pdf_out = Raised(Exc("ValueError",
                     <<"Could not extract any data from PDF invoice.">>))


----------------------------------------------------------------------------
(* The Invoice Uploader page, checked under SpecPage *)

\* C30: the table the page shows and offers for download is the table of
\* the most recent click on Process Invoice and was made for the vendor
\* that is selected: after a click that failed, no table is shown.
C30_DisplayIsLatestAttempt ==
    displayed.shown
        => /\ last_attempt.outcome = "success"
           /\ displayed.table.vendor = last_attempt.vendor
           /\ displayed.table.ext = last_attempt.ext
           /\ displayed.table.vendor = selected_vendor
           /\ displayed.file_name = displayed.table.vendor

=============================================================================
